---- MODULE Spec2Model ----
(***************************************************************************)
(* Peer transport and state replication of simple-webrtc-p2p-game.         *)
(*                                                                         *)
(* The module holds four state machines over one set of variables:         *)
(*   ClientSpec   ClientWorld: snapshots, reliable messages, local ticks   *)
(*   CodecSpec    ServerWorld.createState read back by handleState         *)
(*   ServerSpec   WebChannelServer / WebChannelClient / ServerWorld        *)
(*   ChannelSpec  WebChannel, the client side transport                    *)
(* Numbers are the program's: words of a Uint16Array are 0..65535, the     *)
(* sequence number is read as a signed 32 bit integer.                     *)
(***************************************************************************)
EXTENDS Integers, Sequences, FiniteSets, TLC

\* ---------------------------------------------------------------- constants

LEFT == 1
RIGHT == 2
UP == 4
DOWN == 8
SERVER_UPDATES_PER_SECOND == 20
CLIENT_UPDATES_PER_SECOND == 40
MOVE_SPEED == 8

\* Reading a typed array past its end yields undefined.
Undefined == -1

\* Number of values of an unsigned 16 bit word.
Word == 65536

\* SimpleGameMap: the wall tiles, row by row.
MAP == <<
    226,2,2,2,2,2,2,2,2,2,2,2,2,2,2,2,2,2,2,2,2,2,2,2,2,2,2,2,2,227,
    258,34,65,34,34,34,34,34,34,34,34,34,34,34,34,34,34,34,34,34,34,34,34,34,34,34,34,65,34,259,
    257,0,0,0,0,0,0,0,0,0,0,0,0,0,0,0,0,0,0,0,0,0,0,0,0,0,0,0,0,256,
    257,0,0,0,0,0,0,0,0,0,0,0,0,0,0,0,0,0,0,0,0,0,0,0,0,0,0,0,0,256,
    257,0,0,0,0,0,0,0,0,0,0,0,0,0,0,0,0,0,0,0,0,0,0,0,0,0,0,0,0,256,
    257,0,0,0,0,0,0,0,0,0,0,0,0,0,0,0,0,0,0,0,0,0,0,0,0,0,0,0,0,256,
    257,0,0,0,0,0,0,0,0,0,0,0,0,0,0,0,0,0,0,0,0,0,0,0,0,0,0,0,0,256,
    257,0,0,0,0,0,0,0,0,0,0,0,0,0,0,0,0,0,0,0,0,0,0,0,0,0,0,0,0,256,
    257,0,0,0,0,0,0,0,0,0,0,0,0,0,0,0,0,0,0,0,0,0,0,0,0,0,0,0,0,256,
    257,0,0,0,0,0,0,0,0,0,0,0,0,0,0,0,0,0,0,0,0,0,0,0,0,0,0,0,0,256,
    257,0,0,0,0,0,0,0,0,0,0,0,0,0,0,0,0,0,0,0,0,0,0,0,0,0,0,0,0,256,
    257,0,0,0,0,0,0,0,0,0,0,0,0,0,0,0,0,0,0,0,0,0,0,0,0,0,0,0,0,256,
    257,0,0,0,0,0,0,0,0,0,0,0,0,0,0,0,0,0,0,0,0,0,0,0,0,0,0,0,0,256,
    257,0,0,0,0,0,0,0,0,0,0,0,0,0,0,0,0,0,0,0,0,0,0,0,0,0,0,0,0,256,
    257,0,0,0,0,0,0,0,0,0,0,0,0,0,0,0,0,0,0,0,0,0,0,0,0,0,0,0,0,256,
    257,0,0,0,0,0,0,0,0,0,0,0,0,0,0,0,0,0,0,0,0,0,0,0,0,0,0,0,0,256,
    257,0,0,0,0,0,0,0,0,0,0,0,0,0,0,0,0,0,0,0,0,0,0,0,0,0,0,0,0,256,
    257,0,0,0,0,0,0,0,0,0,0,0,0,0,0,0,0,0,0,0,0,0,0,0,0,0,0,0,0,256,
    290,2,2,2,2,2,2,2,2,2,2,2,2,2,2,2,2,2,2,2,2,2,2,2,2,2,2,2,2,291,
    34,34,34,34,34,34,34,34,34,34,34,34,34,34,34,34,34,34,34,34,34,34,34,34,34,34,34,34,34,34
>>

width == 30
height == 20

\* SimpleGameMap.getTile: MAP[tx + ty * width], undefined outside the array.
getTile(tx, ty) ==
    LET i == tx + (ty * width)
    IN  IF i >= 0 /\ i < Len(MAP) THEN MAP[i + 1] ELSE Undefined

\* SimpleGameMap.blockedAt: the tile under the sprite's feet is not floor.
blockedAt(x, y) ==
    getTile((x + 8) \div 16, (y + 20) \div 16) # 0

\* ------------------------------------------------------------------ entity

\* new Entity(id, x, y, type)
Entity(id, x, y, type) ==
    [id |-> id, x |-> x, y |-> y, type |-> type,
     faceLeft |-> TRUE, moving |-> FALSE,
     left |-> FALSE, right |-> FALSE, up |-> FALSE, down |-> FALSE]

\* Entity.updateState
updateState(e, x, y, type, left, right, up, down) ==
    [e EXCEPT !.x = x, !.y = y, !.type = type,
              !.left = left, !.right = right, !.up = up, !.down = down]

\* (controls & BIT) !== 0, with undefined & BIT = 0
HasBit(controls, bit) ==
    controls # Undefined /\ (controls \div bit) % 2 = 1

\* The control bit field of an entity, as both worlds encode it.
ControlBits(e) ==
    (IF e.left THEN LEFT ELSE 0) + (IF e.right THEN RIGHT ELSE 0)
  + (IF e.up THEN UP ELSE 0) + (IF e.down THEN DOWN ELSE 0)

\* Array.find(entity => entity.id === id): index of the first match, 0 if none.
FindById(ents, id) ==
    IF \E i \in 1..Len(ents) : ents[i].id = id
    THEN CHOOSE i \in 1..Len(ents) :
            ents[i].id = id /\ \A j \in 1..(i - 1) : ents[j].id # id
    ELSE 0

\* ------------------------------------------------- shared movement integrator

\* An entity's turn that commits the new position without asking the map.
MoveEntityUnchecked(e, moveStep) ==
    LET ny == e.y - (IF e.up THEN moveStep ELSE 0) + (IF e.down THEN moveStep ELSE 0)
        nx == e.x - (IF e.left THEN moveStep ELSE 0) + (IF e.right THEN moveStep ELSE 0)
    IN  [e EXCEPT !.faceLeft = IF nx > e.x THEN FALSE ELSE IF nx < e.x THEN TRUE ELSE @,
                  !.moving = (e.x # nx) \/ (e.y # ny), !.x = nx, !.y = ny]

\* One entity's turn in AbstractWorld.moveEntities.
MoveEntity(e, moveStep) ==
    LET ny == e.y - (IF e.up THEN moveStep ELSE 0) + (IF e.down THEN moveStep ELSE 0)
        nx == e.x - (IF e.left THEN moveStep ELSE 0) + (IF e.right THEN moveStep ELSE 0)
        face == IF nx > e.x THEN FALSE ELSE IF nx < e.x THEN TRUE ELSE e.faceLeft
        moving == (e.x # nx) \/ (e.y # ny)
        commit == moving /\ ~blockedAt(nx, ny)
    IN  [e EXCEPT !.faceLeft = face, !.moving = moving,
                  !.x = IF commit THEN nx ELSE e.x,
                  !.y = IF commit THEN ny ELSE e.y]

\* AbstractWorld.moveEntities(exclude): exclude is an index into ents, 0 for none.
moveEntities(ents, exclude, moveStep) ==
    [i \in 1..Len(ents) |-> IF i = exclude THEN ents[i] ELSE MoveEntity(ents[i], moveStep)]

RECURSIVE MoveTimes(_, _, _, _)
\* moveEntities repeated n times with the same excluded entity.
MoveTimes(ents, exclude, moveStep, n) ==
    IF n <= 0 THEN ents
    ELSE MoveTimes(moveEntities(ents, exclude, moveStep), exclude, moveStep, n - 1)

\* ------------------------------------------------------------ wire formats

\* state[i] of a Uint16Array (0 based), undefined past the end.
At(state, i) == IF i < Len(state) THEN state[i + 1] ELSE Undefined

\* A value used as a bitwise operand: undefined counts as 0.
Bits(v) == IF v = Undefined THEN 0 ELSE v

\* new Uint16Array(data): every number is stored modulo 2^16.
Uint16Array(data) == [i \in 1..Len(data) |-> data[i] % Word]

\* ServerWorld.createState: the sequence number, then five words per entity.
createState(sequence, ents) ==
    LET RECURSIVE Flat(_)
        Flat(i) == IF i > Len(ents) THEN <<>>
                   ELSE <<ents[i].id, ents[i].x, ents[i].y, ents[i].type,
                          ControlBits(ents[i])>> \o Flat(i + 1)
    IN  Uint16Array(<<sequence>> \o Flat(1))

\* ClientWorld.handleState: seq = state[0] | ((state[1] << 16) & 0xFFFF0000)
\* The result of | is a signed 32 bit integer: a high word with its top bit
\* set makes the sequence number negative.
DecodeSeq(state) ==
    LET lo == Bits(At(state, 0))
        hi == Bits(At(state, 1))
    IN  lo + (Word * (IF hi >= Word \div 2 THEN hi - Word ELSE hi))

\* ClientWorld.handleState: the record read at index (id, x, y, type, controls).
DecodeRecord(state, index) ==
    [id |-> At(state, index), x |-> At(state, index + 1), y |-> At(state, index + 2),
     type |-> At(state, index + 3), controls |-> At(state, index + 4)]

RECURSIVE DecodeRecords(_, _)
\* ClientWorld.handleState: the records of the while loop, from index on.
DecodeRecords(state, index) ==
    IF index < Len(state)
    THEN <<DecodeRecord(state, index)>> \o DecodeRecords(state, index + 5)
    ELSE <<>>

\* ------------------------------------------------------------- client world

\* The client's step: SERVER_UPDATES_PER_SECOND / CLIENT_UPDATES_PER_SECOND is
\* 1 / StepsPerTick, and the client's localSequenceNumber is held in steps.
StepsPerTick == CLIENT_UPDATES_PER_SECOND \div SERVER_UPDATES_PER_SECOND

\* MOVE_SPEED * stepSize of the client world.
ClientMoveStep == (MOVE_SPEED * SERVER_UPDATES_PER_SECOND) \div CLIENT_UPDATES_PER_SECOND

\* A getLocalEntity that takes the first entity of the list for ours.
getLocalEntityFirst(ents, my) == IF ents = <<>> THEN 0 ELSE 1

\* ClientWorld.getLocalEntity: index of the entity we control, 0 if none.
getLocalEntity(ents, my) == FindById(ents, my)

\* ClientWorld.handleState: the staleness test, as a mutant that lets an equal
\* sequence number through.
IsOldStrict(seq, last) == seq < last

\* ClientWorld.handleState: if (seq <= this.lastSequenceNumber) return
IsOld(seq, last) == seq <= last

\* ClientWorld.handleState: whether a record is written to its entity, as a
\* mutant that also overwrites the local entity.
ShouldUpdateAlways(isLocal, created) == TRUE

\* The same test, as a mutant that forgets the entity created by this snapshot.
ShouldUpdateRemoteOnly(isLocal, created) == ~isLocal

\* ClientWorld.handleState: if (entity !== localEntity || created)
ShouldUpdate(isLocal, created) == (~isLocal) \/ created

RECURSIVE ApplyRecords(_, _, _, _, _)
\* ClientWorld.handleState: the while loop. mentioned holds the indices of
\* entitiesInUpdate; entities are only appended here, so an index is an identity.
ApplyRecords(state, index, ents, mentioned, my) ==
    IF index >= Len(state) THEN [entities |-> ents, mentioned |-> mentioned]
    ELSE
      LET r == DecodeRecord(state, index)
          found == FindById(ents, r.id)
          created == found = 0
          ents1 == IF created THEN Append(ents, Entity(r.id, 0, 0, 0)) ELSE ents
          ei == IF created THEN Len(ents1) ELSE found
          localEntity == getLocalEntity(ents1, my)
          ents2 == IF ShouldUpdate(ei = localEntity, created)
                   THEN [ents1 EXCEPT ![ei] =
                           updateState(ents1[ei], r.x, r.y, r.type,
                                       HasBit(r.controls, LEFT), HasBit(r.controls, RIGHT),
                                       HasBit(r.controls, UP), HasBit(r.controls, DOWN))]
                   ELSE ents1
      IN  ApplyRecords(state, index + 5, ents2, mentioned \cup {ei}, my)

RECURSIVE KeepMentionedInPlace(_, _, _)
\* The removal loop, as a mutant that iterates the live array instead of a copy:
\* the element that slides into a removed slot is never looked at.
KeepMentionedInPlace(ents, mentioned, i) ==
    IF i > Len(ents) THEN <<>>
    ELSE IF i \in mentioned
         THEN <<ents[i]>> \o KeepMentionedInPlace(ents, mentioned, i + 1)
         ELSE (IF i + 1 <= Len(ents) THEN <<ents[i + 1]>> ELSE <<>>)
              \o KeepMentionedInPlace(ents, mentioned, i + 2)

RECURSIVE KeepMentioned(_, _, _)
\* ClientWorld.handleState: splice out every entity not in entitiesInUpdate.
KeepMentioned(ents, mentioned, i) ==
    IF i > Len(ents) THEN <<>>
    ELSE (IF i \in mentioned THEN <<ents[i]>> ELSE <<>>)
         \o KeepMentioned(ents, mentioned, i + 1)

\* A replay of a single pass, however many steps ahead the time base is.
ReplayOnce(ents, my, stepsAhead) ==
    MoveTimes(ents, getLocalEntity(ents, my), ClientMoveStep, 1)

\* ClientWorld.handleState: moveEntities(this.getLocalEntity()), stepsAhead times.
\* The local entity is looked up on every pass; moving changes no id nor order.
Replay(ents, my, stepsAhead) ==
    MoveTimes(ents, getLocalEntity(ents, my), ClientMoveStep, stepsAhead)

\* ClientWorld.handleState on one buffer. applied is the entity list after the
\* records and the removal, before the replay.
handleState(ents, my, last, local, state) ==
    LET seq == DecodeSeq(state)
    IN  IF IsOld(seq, last)
        THEN [accepted |-> FALSE, entities |-> ents, applied |-> ents,
              lastSequenceNumber |-> last, localSequenceNumber |-> local,
              stepsAhead |-> 0]
        ELSE
          LET a == ApplyRecords(state, 2, ents, {}, my)
              kept == KeepMentioned(a.entities, a.mentioned, 1)
              \* Math.floor((local - last) / step), local held in steps
              stepsAhead == local - (seq * StepsPerTick)
          IN  [accepted |-> TRUE,
               entities |-> IF stepsAhead > 0 THEN Replay(kept, my, stepsAhead) ELSE kept,
               applied |-> kept,
               lastSequenceNumber |-> seq,
               localSequenceNumber |-> IF stepsAhead > 0 THEN local
                                       ELSE seq * StepsPerTick,
               stepsAhead |-> stepsAhead]

\* ------------------------------------------------------------------- state

VARIABLES
    \* ClientWorld
    entities,             \* AbstractWorld.entities of the client world
    myId,                 \* ClientWorld.myId
    lastSequenceNumber,   \* ClientWorld.lastSequenceNumber
    localSequenceNumber,  \* ClientWorld.localSequenceNumber, in steps
    nameById,             \* ClientWorld.nameById
    \* WebChannelServer and its WebChannelClient peers
    clients,              \* WebChannelServer.clients: the roster, peer ids in order
    peers,                \* every WebChannelClient created so far, by id
    nextId,               \* WebChannelServer.nextId
    \* ServerWorld
    serverEntities,       \* AbstractWorld.entities of the server world
    nextEntityId,         \* ServerWorld.nextEntityId
    clientToEntity,       \* ServerWorld.clientToEntity: peer id -> entity id
    sequenceNumber,       \* ServerWorld.sequenceNumber
    simulateNetworkDelayAndLoss,  \* ServerWorld.simulateNetworkDelayAndLoss
    timeouts,             \* the delayed broadcasts setTimeout has not fired yet
    wire,                 \* a snapshot buffer on its way to a client; the relay in HandshakeSpec
    \* WebChannel, the client transport
    webChannel,           \* the WebChannel object's fields and callback counts
    rtc,                  \* every RTCPeerConnection startConnection made, in order
    \* bookkeeping
    op,                   \* the operation that produced this state, with its input
    ticks                 \* timer callbacks run so far

clientVars == <<entities, myId, lastSequenceNumber, localSequenceNumber, nameById>>

transportVars == <<clients, peers, nextId>>

worldVars == <<serverEntities, nextEntityId, clientToEntity, sequenceNumber,
               simulateNetworkDelayAndLoss, timeouts>>

channelVars == <<webChannel, rtc>>

vars == <<clientVars, transportVars, worldVars, channelVars, wire, op, ticks>>

\* The state of each part before it is started.
ClientIdle ==
    /\ entities = <<>>
    /\ myId = 0
    /\ lastSequenceNumber = 0
    /\ localSequenceNumber = 0
    /\ nameById = <<>>

\* new WebChannel(username, target, relayServer): no connection, no channel.
\* remoteConnection, orderedChannel and unorderedChannel hold the index in rtc of
\* the connection (of the connection the channel belongs to), 0 for undefined.
ChannelIdle ==
    /\ webChannel = [remoteConnection |-> 0, orderedChannel |-> 0, unorderedChannel |-> 0,
                     onConnectCalls |-> 0, onDisconnectCalls |-> 0, answers |-> 0]
    /\ rtc = <<>>

TransportIdle ==
    /\ clients = <<>>
    /\ peers = <<>>
    /\ nextId = 1

WorldIdle ==
    /\ serverEntities = <<>>
    /\ nextEntityId = 1
    /\ clientToEntity = <<>>
    /\ sequenceNumber = 0
    /\ simulateNetworkDelayAndLoss = FALSE
    /\ timeouts = {}

\* ------------------------------------------------------------------ bounds

\* Timer callbacks (movement ticks) a run may take.
MaxTicks == 1

\* ------------------------------------------------------- ClientSpec: inputs

\* Entity records a snapshot may carry: id, x, y, type, controls.
R7 == <<7, 100, 100, 2, 0>>
R7b == <<7, 120, 100, 2, RIGHT>>
R8 == <<8, 200, 152, 3, LEFT>>
R9 == <<9, 8, 12, 1, LEFT + UP>>

\* Snapshot bodies: none, one, two or three records, and a repeated id.
SnapshotBodies ==
    { <<>>, R7, R8 \o R9, R9 \o R7 \o R8, R7 \o R7b }

\* Low words of the sequence numbers tried; 50000 is the server's ceiling.
SnapshotSeqs == {5, 10, 50000}

\* Buffers in the layout handleState reads: seqLow, seqHigh, records.
LayoutBuffers == {<<s, 0>> \o b : s \in SnapshotSeqs, b \in SnapshotBodies}

\* Buffers as ServerWorld.createState builds them.
ServerBuffers ==
    LET e7 == updateState(Entity(7, 104, 100, 2), 104, 100, 2, FALSE, TRUE, FALSE, FALSE)
        e8 == Entity(8, 200, 152, 3)
    IN  {createState(10, <<e7>>), createState(10, <<e7, e8>>)}

SnapshotInputs == LayoutBuffers \cup ServerBuffers

\* Reliable messages the client may be handed, after JSON.parse.
ReliableInputs ==
    { [type |-> "identify", entityId |-> 7],
      [type |-> "time", seq |-> 12],
      [type |-> "chat"] }

\* Keys the player presses and releases.
Keys == {"right"}

\* ------------------------------------------------------ ClientSpec: actions

ClientInit ==
    /\ ClientIdle /\ TransportIdle /\ WorldIdle /\ ChannelIdle
    /\ wire = <<>>
    /\ op = [name |-> "init"]
    /\ ticks = 0

\* client.onUnorderedBinary -> ClientWorld.handleState(buffer)
HandleState(buffer) ==
    LET h == handleState(entities, myId, lastSequenceNumber, localSequenceNumber, buffer)
    IN  /\ entities' = h.entities
        /\ lastSequenceNumber' = h.lastSequenceNumber
        /\ localSequenceNumber' = h.localSequenceNumber
        /\ op' = [name |-> "handleState", buffer |-> buffer, accepted |-> h.accepted,
                  applied |-> h.applied, stepsAhead |-> h.stepsAhead]
        /\ UNCHANGED <<myId, nameById, ticks>>

\* client.onOrderedText -> ClientWorld.handleReliable(text)
HandleReliable(message) ==
    /\ myId' = IF message.type = "identify" THEN message.entityId ELSE myId
    /\ nameById' = IF message.type = "name"
                   THEN [i \in DOMAIN nameById \cup {message.entityId} |->
                           IF i = message.entityId THEN message.name ELSE nameById[i]]
                   ELSE nameById
    /\ localSequenceNumber' = IF message.type = "time"
                              THEN message.seq * StepsPerTick
                              ELSE localSequenceNumber
    /\ op' = [name |-> "handleReliable", message |-> message]
    /\ UNCHANGED <<entities, lastSequenceNumber, ticks>>

\* The client's movement interval: moveEntities(), then advance the time base
\* once it has been initialised.
ClientTick ==
    /\ ticks < MaxTicks
    /\ ticks' = ticks + 1
    /\ entities' = moveEntities(entities, 0, ClientMoveStep)
    /\ localSequenceNumber' = IF localSequenceNumber # 0
                              THEN localSequenceNumber + 1
                              ELSE localSequenceNumber
    /\ op' = [name |-> "tick"]
    /\ UNCHANGED <<myId, lastSequenceNumber, nameById>>

\* ClientWorld.sendState: [floor(x), floor(y), controls] of the local entity goes
\* out on the unordered channel; op.data is what was sent, <<>> when nothing was.
SendState ==
    LET i == getLocalEntity(entities, myId)
    IN  /\ op' = [name |-> "sendState",
                  data |-> IF i # 0
                           THEN Uint16Array(<<entities[i].x, entities[i].y,
                                              ControlBits(entities[i])>>)
                           ELSE <<>>]
        /\ UNCHANGED <<clientVars, ticks>>

\* SimpleP2PGame.keyDown / keyUp: set one input flag of the local entity.
Key(key, pressed) ==
    LET i == getLocalEntity(entities, myId)
    IN  /\ i # 0
        /\ entities' = [entities EXCEPT ![i] =
              [@ EXCEPT !.left  = IF key = "left"  THEN pressed ELSE @,
                        !.right = IF key = "right" THEN pressed ELSE @,
                        !.up    = IF key = "up"    THEN pressed ELSE @,
                        !.down  = IF key = "down"  THEN pressed ELSE @]]
        /\ op' = [name |-> "key", key |-> key, pressed |-> pressed]
        /\ UNCHANGED <<myId, lastSequenceNumber, localSequenceNumber, nameById, ticks>>

ClientNext ==
    /\ \/ \E buffer \in SnapshotInputs : HandleState(buffer)
       \/ \E message \in ReliableInputs : HandleReliable(message)
       \/ ClientTick
       \/ SendState
       \/ \E key \in Keys, pressed \in BOOLEAN : Key(key, pressed)
    /\ UNCHANGED <<transportVars, worldVars, channelVars, wire>>

ClientSpec == ClientInit /\ [][ClientNext]_vars

\* ------------------------------------------------------ ClientSpec: claims

\* The ids of an entity list, in order, and as a set.
IdSeq(ents) == [i \in 1..Len(ents) |-> ents[i].id]
IdSet(ents) == {ents[i].id : i \in 1..Len(ents)}

\* The records of the snapshot an operation carried.
RecordsOf(o) == DecodeRecords(o.buffer, 2)

\* Whether entity e holds exactly the values of record r.
HoldsRecord(e, r) ==
    /\ e.x = r.x /\ e.y = r.y /\ e.type = r.type
    /\ e.left = HasBit(r.controls, LEFT) /\ e.right = HasBit(r.controls, RIGHT)
    /\ e.up = HasBit(r.controls, UP) /\ e.down = HasBit(r.controls, DOWN)

\* Whether two entities agree on position, type and the four input flags.
SameState(e, f) ==
    /\ e.x = f.x /\ e.y = f.y /\ e.type = f.type
    /\ e.left = f.left /\ e.right = f.right /\ e.up = f.up /\ e.down = f.down

\* C1: handleState on a snapshot whose sequence number is not strictly greater
\* than lastSequenceNumber changes nothing: the entity list, every entity,
\* lastSequenceNumber and localSequenceNumber are the same before and after.
C1_StaleSnapshotChangesNothing ==
    [][ (op'.name = "handleState" /\ DecodeSeq(op'.buffer) <= lastSequenceNumber)
            => UNCHANGED clientVars ]_vars

\* C1 witness: a snapshot with records and sequence 5 was handed to a client that
\* holds entities and had accepted 10; it was not accepted.
C1_Witness ==
    /\ op.name = "handleState" /\ ~op.accepted
    /\ DecodeSeq(op.buffer) = 5 /\ lastSequenceNumber = 10
    /\ Len(op.buffer) > 2 /\ Len(entities) > 0

\* C2 (as claimed): with lastSequenceNumber = 50000, the post-wrap snapshot with
\* sequence number 5 is accepted and lastSequenceNumber becomes 5.
C2_WrappedSnapshotAccepted ==
    [][ (op'.name = "handleState" /\ lastSequenceNumber = 50000
            /\ DecodeSeq(op'.buffer) = 5)
            => lastSequenceNumber' = 5 ]_vars

\* C3: when an accepted snapshot has a record for the locally controlled entity
\* and that entity existed before the snapshot, its x, y, type and input flags
\* are unchanged, after the records are applied and after the replay.
C3_LocalEntityPreserved ==
    [][ (/\ op'.name = "handleState" /\ op'.accepted
         /\ getLocalEntity(entities, myId) # 0
         /\ \E k \in 1..Len(RecordsOf(op')) : RecordsOf(op')[k].id = myId)
            => LET before == entities[getLocalEntity(entities, myId)]
                   i == FindById(op'.applied, myId)
                   j == FindById(entities', myId)
               IN  /\ i # 0 /\ SameState(op'.applied[i], before)
                   /\ j # 0 /\ SameState(entities'[j], before) ]_vars

\* C3 witness: a snapshot was accepted and replayed, and the local entity still
\* differs from the record the snapshot carried for it.
C3_Witness ==
    /\ op.name = "handleState" /\ op.accepted /\ op.stepsAhead > 0
    /\ getLocalEntity(entities, myId) # 0
    /\ \E k \in 1..Len(RecordsOf(op)) :
          /\ RecordsOf(op)[k].id = myId
          /\ entities[getLocalEntity(entities, myId)].x # RecordsOf(op)[k].x
          /\ entities[getLocalEntity(entities, myId)].right
                # HasBit(RecordsOf(op)[k].controls, RIGHT)

\* Whether record k of recs is passed over: it names the locally controlled
\* entity and that entity is already there when the record is read.
PassedOver(recs, k, ents, my) ==
    /\ recs[k].id = my
    /\ (FindById(ents, my) # 0 \/ \E j \in 1..(k - 1) : recs[j].id = my)

C5_HeldIdsAreSnapshotIds ==
    [][ IF op'.name = "handleState" /\ op'.accepted
        THEN /\ IdSet(entities') = {RecordsOf(op')[k].id : k \in 1..Len(RecordsOf(op'))}
             /\ Cardinality(IdSet(entities')) = Len(entities')
        ELSE IdSeq(entities') = IdSeq(entities) ]_vars

\* C5 witness: a client that held three entities, its own among them, has accepted
\* a snapshot naming none of them and holds nothing.
C5_Witness ==
    /\ op.name = "handleState" /\ op.accepted
    /\ lastSequenceNumber = 50000 /\ myId = 7
    /\ RecordsOf(op) = <<>> /\ entities = <<>>

RECURSIVE Moved(_, _)
\* An entity after n movement steps of the client world.
Moved(e, n) == IF n <= 0 THEN e ELSE Moved(MoveEntity(e, ClientMoveStep), n - 1)

\* C29: right after a snapshot with sequence number s is accepted the time base
\* is at s or ahead of it. If it was at or behind s, or no whole step ahead, it
\* is set to s and no entity is moved; otherwise it is left alone and every
\* entity but the local one is moved floor((localSequenceNumber - s) / step)
\* times. The time base is held in steps, s being s * StepsPerTick steps.
C29_TimeBaseNeverBehind ==
    [][(op'.name = "handleState" /\ op'.accepted) =>
          LET s     == lastSequenceNumber' * StepsPerTick
              ahead == localSequenceNumber - s
              local == getLocalEntity(op'.applied, myId)
          IN  /\ lastSequenceNumber' = DecodeSeq(op'.buffer)
              /\ localSequenceNumber' >= s
              /\ IF localSequenceNumber <= s \/ ahead <= 0
                 THEN /\ localSequenceNumber' = s
                      /\ entities' = op'.applied
                 ELSE /\ localSequenceNumber' = localSequenceNumber
                      /\ op'.stepsAhead = ahead
                      /\ Len(entities') = Len(op'.applied)
                      /\ \A i \in 1..Len(op'.applied) :
                            entities'[i] = IF i = local THEN op'.applied[i]
                                           ELSE Moved(op'.applied[i], ahead)
      ]_vars

\* The time base was an odd number of steps ahead of an accepted snapshot that
\* names the local entity and two others, which the replay has moved.
C29_Witness ==
    /\ op.name = "handleState" /\ op.accepted
    /\ op.stepsAhead = 5
    /\ lastSequenceNumber = 10
    /\ localSequenceNumber = 25
    /\ myId = 7
    /\ Len(entities) = 3
    /\ getLocalEntity(entities, myId) # 0
    /\ \E i \in 1..Len(entities) : entities[i].x # op.applied[i].x

\* C30: a send tick sends a report exactly when some entity of the client has
\* the id myId; the report is the position and the control bits of that entity;
\* the tick changes nothing in the client world and sends that one report only.
C30_ReportSentIffLocalEntity ==
    [][op'.name = "sendState" =>
          /\ UNCHANGED clientVars
          /\ (op'.data # <<>>) <=> (\E i \in 1..Len(entities) : entities[i].id = myId)
          /\ \A i \in 1..Len(entities) :
                (entities[i].id = myId /\ \A j \in 1..(i - 1) : entities[j].id # myId)
                   => op'.data = <<entities[i].x, entities[i].y, ControlBits(entities[i])>>
      ]_vars

\* A client whose own entity, second in its list and with a key held down, has
\* just been reported.
C30_Witness ==
    /\ op.name = "sendState"
    /\ Len(entities) = 3
    /\ entities[2].id = myId
    /\ entities[2].right
    /\ op.data = <<entities[2].x, entities[2].y, RIGHT>>

\* ----------------------------------------------------------------- CodecSpec
\* ServerWorld.createState read back by ClientWorld.handleState.

\* Sequence numbers the server may stamp: 0 up to the ceiling 50000.
CodecSeqs == {0, 1, 5, 49999, 50000}

\* Entities a server world may hold: ids from nextEntityId, positions on the
\* floor of the map, types 1..8, any input flags.
CodecEntities ==
    { updateState(Entity(1, 100, 100, 2), 100, 100, 2, FALSE, FALSE, FALSE, FALSE),
      updateState(Entity(2, 199, 150, 8), 199, 150, 8, FALSE, TRUE, FALSE, TRUE),
      updateState(Entity(3, 8, 12, 1), 8, 12, 1, TRUE, FALSE, TRUE, FALSE),
      updateState(Entity(7, 455, 267, 5), 455, 267, 5, TRUE, TRUE, TRUE, TRUE) }

\* Entity lists of up to two entities with distinct ids.
CodecEntityLists ==
    {<<>>} \cup {<<e>> : e \in CodecEntities}
           \cup {l \in CodecEntities \X CodecEntities : l[1].id # l[2].id}

CodecInit ==
    /\ ClientIdle /\ TransportIdle /\ ChannelIdle
    /\ serverEntities \in CodecEntityLists
    /\ nextEntityId = 8
    /\ clientToEntity = <<>>
    /\ sequenceNumber \in CodecSeqs
    /\ simulateNetworkDelayAndLoss = FALSE
    /\ timeouts = {}
    /\ wire = <<>>
    /\ op = [name |-> "init"]
    /\ ticks = 0

\* The server builds the snapshot of its world and hands it to the channel.
CodecEncode ==
    /\ op.name = "init"
    /\ wire' = createState(sequenceNumber, serverEntities)
    /\ op' = [name |-> "createState"]
    /\ UNCHANGED <<clientVars, transportVars, worldVars, channelVars, ticks>>

\* The client reads the sequence number and the records out of the buffer.
CodecDecode ==
    /\ op.name = "createState"
    /\ op' = [name |-> "decode", seq |-> DecodeSeq(wire),
              records |-> DecodeRecords(wire, 2)]
    /\ UNCHANGED <<clientVars, transportVars, worldVars, channelVars, wire, ticks>>

CodecNext == CodecEncode \/ CodecDecode

CodecSpec == CodecInit /\ [][CodecNext]_vars

\* The record the wire format carries for an entity.
RecordOfEntity(e) ==
    [id |-> e.id, x |-> e.x, y |-> e.y, type |-> e.type, controls |-> ControlBits(e)]

\* C6 (as claimed): the sequence number handleState decodes from a buffer built
\* by createState(seq) equals seq, for every entity list.
C6_DecodedSeqIsSeq ==
    op.name = "decode" => op.seq = sequenceNumber

\* C7 (as claimed): the records handleState decodes from a buffer built by
\* createState are the server's entities, one record each, in order.
C7_DecodedRecordsAreEntities ==
    op.name = "decode" =>
        op.records = [i \in 1..Len(serverEntities) |-> RecordOfEntity(serverEntities[i])]

\* ---------------------------------------------------------------- ServerSpec
\* WebChannelServer, its WebChannelClient peers and the ServerWorld callbacks.
\* The server's state is passed through the handlers as one record.

\* The server state as a record, so that a handler can call another.
ServerState ==
    [clients |-> clients, peers |-> peers, nextId |-> nextId,
     serverEntities |-> serverEntities, nextEntityId |-> nextEntityId,
     clientToEntity |-> clientToEntity, sequenceNumber |-> sequenceNumber]

\* new WebChannelClient(id, server, username): both data channels are created
\* (readyState connecting), the offer is still being made.
\* orderedState / unorderedState are the channels' readyState; orderedOpened /
\* unorderedOpened, onConnectCalls, onDisconnectCalls and sent are the peer's history.
WebChannelClient(id, username) ==
    [id |-> id, username |-> username,
     orderedChannel |-> TRUE, unorderedChannel |-> TRUE,
     orderedChannelConnected |-> FALSE, unorderedChannelConnected |-> FALSE,
     orderedState |-> "connecting", unorderedState |-> "connecting",
     orderedOpened |-> FALSE, unorderedOpened |-> FALSE,
     offerSent |-> FALSE, remoteDescription |-> FALSE, candidates |-> {},
     onConnectCalls |-> 0, onDisconnectCalls |-> 0, sent |-> <<>>]

\* A connected that one open channel satisfies.
connectedEither(c) == c.unorderedChannelConnected \/ c.orderedChannelConnected

\* WebChannelClient.connected
connected(c) == c.unorderedChannelConnected /\ c.orderedChannelConnected

\* Array.includes / indexOf on the roster.
InRoster(roster, id) == \E i \in 1..Len(roster) : roster[i] = id

\* A sequence without its elements equal to v (the roster and the entity list
\* hold each object once).
Without(seq, v) ==
    LET RECURSIVE W(_)
        W(i) == IF i > Len(seq) THEN <<>>
                ELSE (IF seq[i] = v THEN <<>> ELSE <<seq[i]>>) \o W(i + 1)
    IN  W(1)

\* A removeClient that splices at indexOf without asking includes first:
\* indexOf is -1 for an absent peer and splice(-1, 1) takes the last entry.
removeClientUnguarded(S, id) ==
    IF InRoster(S.clients, id) THEN [S EXCEPT !.clients = Without(S.clients, id)]
    ELSE [S EXCEPT !.clients = SubSeq(@, 1, Len(@) - 1)]

\* WebChannelServer.removeClient
removeClient(S, id) ==
    IF InRoster(S.clients, id) THEN [S EXCEPT !.clients = Without(S.clients, id)] ELSE S

\* WebChannelClient.sendOrderedText: sent only while the channel object is held.
sendOrderedText(S, id, message) ==
    IF S.peers[id].orderedChannel
    THEN [S EXCEPT !.peers[id].sent = Append(@, message)]
    ELSE S

\* ServerWorld.sendAllReliable: to every roster peer that is connected.
sendAllReliable(S, message) ==
    LET RECURSIVE Each(_, _)
        Each(T, i) ==
            IF i > Len(S.clients) THEN T
            ELSE Each(IF connected(T.peers[S.clients[i]])
                      THEN sendOrderedText(T, S.clients[i], message) ELSE T, i + 1)
    IN  Each(S, 1)

\* ServerWorld.clientConnected: the names of the other roster peers that have an
\* entity go to the new peer.
SendOtherNames(S, id) ==
    LET RECURSIVE Each(_, _)
        Each(T, i) ==
            IF i > Len(S.clients) THEN T
            ELSE LET other == S.clients[i]
                 IN  Each(IF other # id /\ other \in DOMAIN S.clientToEntity
                          THEN sendOrderedText(T, id,
                                 [type |-> "name", entityId |-> S.clientToEntity[other],
                                  name |-> S.peers[other].username])
                          ELSE T, i + 1)
    IN  Each(S, 1)

\* A clientConnected that numbers the new entity by its place in the list.
clientConnectedRecycling(S, id, spawn) ==
    LET entity == Entity(Len(S.serverEntities) + 1, spawn[1], spawn[2], spawn[3])
    IN  [S EXCEPT !.nextEntityId = @ + 1,
                  !.clientToEntity =
                      [k \in DOMAIN @ \cup {id} |-> IF k = id THEN entity.id ELSE @[k]],
                  !.serverEntities = Append(@, entity)]

\* ServerWorld.clientConnected, spawn being the random x, y and type.
clientConnected(S, id, spawn) ==
    LET entity == Entity(S.nextEntityId, spawn[1], spawn[2], spawn[3])
        S1 == [S EXCEPT !.nextEntityId = @ + 1]
        S2 == sendOrderedText(S1, id, [type |-> "time", seq |-> S.sequenceNumber])
        S3 == sendOrderedText(S2, id, [type |-> "identify", entityId |-> entity.id])
        S4 == sendAllReliable(S3, [type |-> "name", entityId |-> entity.id,
                                   name |-> S.peers[id].username])
        S5 == SendOtherNames(S4, id)
    IN  [S5 EXCEPT !.clientToEntity =
                      [k \in DOMAIN @ \cup {id} |-> IF k = id THEN entity.id ELSE @[k]],
                   !.serverEntities = Append(@, entity)]

\* A clientDisconnected that forgets the peer's entity but leaves it in the world.
clientDisconnectedKeepsEntity(S, id) ==
    IF id \in DOMAIN S.clientToEntity
    THEN [S EXCEPT !.clientToEntity = [k \in DOMAIN @ \ {id} |-> @[k]]]
    ELSE S

\* ServerWorld.clientDisconnected
clientDisconnected(S, id) ==
    IF id \in DOMAIN S.clientToEntity
    THEN [S EXCEPT !.serverEntities =
                      SelectSeq(@, LAMBDA e : e.id # S.clientToEntity[id]),
                   !.clientToEntity = [k \in DOMAIN @ \ {id} |-> @[k]]]
    ELSE S

\* server.onConnect(this), wired to ServerWorld.clientConnected.
onConnect(S, id, spawn) ==
    clientConnected([S EXCEPT !.peers[id].onConnectCalls = @ + 1], id, spawn)

\* A disconnect that leaves the peer's entity in the world.
DisconnectKeepsEntity(S, id) ==
    [removeClient(S, id) EXCEPT !.peers[id].onDisconnectCalls = @ + 1]

\* server.removeClient(this) then server.onDisconnect(this), wired to
\* ServerWorld.clientDisconnected.
Disconnect(S, id) ==
    clientDisconnected(
        [removeClient(S, id) EXCEPT !.peers[id].onDisconnectCalls = @ + 1], id)

\* WebChannelClient.handleOrderedStatusChange: this.unorderedChannelConnected = false
OrderedCloseClears == "unorderedChannelConnected"

\* WebChannelClient.handleOrderedStatusChange, the channel's readyState being
\* S.peers[id].orderedState.
handleOrderedStatusChange(S, id, spawn) ==
    IF ~S.peers[id].orderedChannel THEN S
    ELSE IF S.peers[id].orderedState = "open"
    THEN LET S1 == [S EXCEPT !.peers[id].orderedChannelConnected = TRUE]
         IN  IF connected(S1.peers[id]) THEN onConnect(S1, id, spawn) ELSE S1
    ELSE LET S1 == IF connected(S.peers[id]) THEN Disconnect(S, id) ELSE S
         IN  [S1 EXCEPT !.peers[id] =
                 [@ EXCEPT ![OrderedCloseClears] = FALSE, !.orderedChannel = FALSE]]

\* WebChannelClient.handleUnorderedStatusChange
handleUnorderedStatusChange(S, id, spawn) ==
    IF ~S.peers[id].unorderedChannel THEN S
    ELSE IF S.peers[id].unorderedState = "open"
    THEN LET S1 == [S EXCEPT !.peers[id].unorderedChannelConnected = TRUE]
         IN  IF connected(S1.peers[id]) THEN onConnect(S1, id, spawn) ELSE S1
    ELSE LET S1 == IF connected(S.peers[id]) THEN Disconnect(S, id) ELSE S
         IN  [S1 EXCEPT !.peers[id].unorderedChannelConnected = FALSE,
                        !.peers[id].unorderedChannel = FALSE]

\* A connectionRequest that numbers the new peer by its place on the roster.
connectionRequestRecycling(S, username) ==
    [S EXCEPT !.peers = Append(@, WebChannelClient(Len(S.clients) + 1, username)),
              !.clients = Append(@, Len(S.clients) + 1),
              !.nextId = @ + 1]

\* WebChannelServer.connectionRequest
connectionRequest(S, username) ==
    [S EXCEPT !.peers = Append(@, WebChannelClient(S.nextId, username)),
              !.clients = Append(@, S.nextId),
              !.nextId = @ + 1]

\* An onRelayMessage that applies candidates and drops the answer.
onRelayMessageNoAnswer(S, id, message) ==
    IF "type" \notin DOMAIN message THEN S
    ELSE IF message.type = "candidate"
    THEN IF S.peers[id].remoteDescription
         THEN [S EXCEPT !.peers[id].candidates = @ \cup {message.candidate}] ELSE S
    ELSE S

\* An onRelayMessage that takes every typed message but a candidate for an answer.
onRelayMessageLax(S, id, message) ==
    IF "type" \notin DOMAIN message THEN S
    ELSE IF message.type = "candidate"
    THEN IF S.peers[id].remoteDescription
         THEN [S EXCEPT !.peers[id].candidates = @ \cup {message.candidate}] ELSE S
    ELSE IF S.peers[id].offerSent /\ ~S.peers[id].remoteDescription
         THEN [S EXCEPT !.peers[id].remoteDescription = TRUE] ELSE S

\* WebChannelClient.onRelayMessage. setRemoteDescription(answer) takes effect only
\* while the local offer is pending, addIceCandidate only once a remote
\* description is set; the rejected promise of the other cases changes nothing.
onRelayMessage(S, id, message) ==
    IF "type" \notin DOMAIN message THEN S
    ELSE IF message.type = "answer"
    THEN IF S.peers[id].offerSent /\ ~S.peers[id].remoteDescription
         THEN [S EXCEPT !.peers[id].remoteDescription = TRUE] ELSE S
    ELSE IF message.type = "candidate"
    THEN IF S.peers[id].remoteDescription
         THEN [S EXCEPT !.peers[id].candidates = @ \cup {message.candidate}] ELSE S
    ELSE S

\* A find that looks through every peer ever created, on the roster or not.
FindAnyPeer(S, from) ==
    IF \E id \in DOMAIN S.peers : S.peers[id].username = from
    THEN CHOOSE id \in DOMAIN S.peers :
            /\ S.peers[id].username = from
            /\ \A j \in 1..(id - 1) : S.peers[j].username # from
    ELSE 0

\* clients.find(client => client.username === from): the first roster peer with
\* that username, 0 if none.
FindClient(S, from) ==
    IF \E i \in 1..Len(S.clients) : S.peers[S.clients[i]].username = from
    THEN S.clients[CHOOSE i \in 1..Len(S.clients) :
            /\ S.peers[S.clients[i]].username = from
            /\ \A j \in 1..(i - 1) : S.peers[S.clients[j]].username # from]
    ELSE 0

\* WebChannelServer: relayServer.onMessage
relayOnMessage(S, from, message) ==
    IF "type" \notin DOMAIN message THEN S
    ELSE IF message.type = "connect" THEN connectionRequest(S, from)
    ELSE IF FindClient(S, from) # 0
         THEN onRelayMessage(S, FindClient(S, from), message)
         ELSE S

\* ---- bounds and inputs

\* WebChannelClient peers a run may create.
MaxPeers == 2

\* Relay identities that send to the server.
Usernames == {"ann", "bob"}

\* Messages the relay may deliver to the server.
RelayInputs ==
    { [type |-> "connect"], [type |-> "answer"],
      [type |-> "candidate", candidate |-> "c1"],
      [type |-> "offer"], [text |-> "hello"] }

\* Spawn draws: 100 + floor(random * 100) for x and y, 1 + floor(random * 8) for type.
Spawns == { <<100, 100, 1>>, <<199, 199, 8>> }

\* ---- actions

\* The server state a handler returns becomes the next state, pending being the
\* delayed broadcasts still to fire.
BecomesWith(S, pending) ==
    /\ timeouts' = pending
    /\ clients' = S.clients
    /\ peers' = S.peers
    /\ nextId' = S.nextId
    /\ serverEntities' = S.serverEntities
    /\ nextEntityId' = S.nextEntityId
    /\ clientToEntity' = S.clientToEntity
    /\ sequenceNumber' = S.sequenceNumber
    /\ simulateNetworkDelayAndLoss' = simulateNetworkDelayAndLoss

\* The same for a handler that schedules no broadcast and fires none.
Becomes(S) == BecomesWith(S, timeouts)

ServerInit ==
    /\ ClientIdle /\ TransportIdle /\ WorldIdle /\ ChannelIdle
    /\ wire = <<>>
    /\ op = [name |-> "init"]
    /\ ticks = 0

\* The relay delivers a message to the server.
RelayMessage(from, message) ==
    /\ ("type" \in DOMAIN message /\ message.type = "connect") => Len(peers) < MaxPeers
    /\ Becomes(relayOnMessage(ServerState, from, message))
    /\ op' = [name |-> "relay", from |-> from, message |-> message]

\* createOffer() resolves: the local description is set and the offer is relayed.
OfferCreated(id) ==
    /\ ~peers[id].offerSent
    /\ Becomes([ServerState EXCEPT !.peers[id].offerSent = TRUE])
    /\ op' = [name |-> "offer", peer |-> id]

\* The ordered channel of a negotiated peer opens: onopen.
OrderedOpen(id, spawn) ==
    /\ peers[id].orderedState = "connecting"
    /\ peers[id].remoteDescription
    /\ Becomes(handleOrderedStatusChange(
          [ServerState EXCEPT !.peers[id].orderedState = "open",
                              !.peers[id].orderedOpened = TRUE], id, spawn))
    /\ op' = [name |-> "orderedOpen", peer |-> id]

\* The ordered channel closes, opened or not: onclose.
OrderedClose(id) ==
    /\ peers[id].orderedState # "closed"
    /\ Becomes(handleOrderedStatusChange(
          [ServerState EXCEPT !.peers[id].orderedState = "closed"], id, <<0, 0, 0>>))
    /\ op' = [name |-> "orderedClose", peer |-> id]

\* The unordered channel of a negotiated peer opens: onopen.
UnorderedOpen(id, spawn) ==
    /\ peers[id].unorderedState = "connecting"
    /\ peers[id].remoteDescription
    /\ Becomes(handleUnorderedStatusChange(
          [ServerState EXCEPT !.peers[id].unorderedState = "open",
                              !.peers[id].unorderedOpened = TRUE], id, spawn))
    /\ op' = [name |-> "unorderedOpen", peer |-> id]

\* The unordered channel closes, opened or not: onclose.
UnorderedClose(id) ==
    /\ peers[id].unorderedState # "closed"
    /\ Becomes(handleUnorderedStatusChange(
          [ServerState EXCEPT !.peers[id].unorderedState = "closed"], id, <<0, 0, 0>>))
    /\ op' = [name |-> "unorderedClose", peer |-> id]

ServerNext ==
    /\ \/ \E from \in Usernames, message \in RelayInputs : RelayMessage(from, message)
       \/ \E id \in DOMAIN peers : OfferCreated(id)
       \/ \E id \in DOMAIN peers, spawn \in Spawns : OrderedOpen(id, spawn)
       \/ \E id \in DOMAIN peers : OrderedClose(id)
       \/ \E id \in DOMAIN peers, spawn \in Spawns : UnorderedOpen(id, spawn)
       \/ \E id \in DOMAIN peers : UnorderedClose(id)
    /\ UNCHANGED <<clientVars, channelVars, wire, ticks>>

ServerSpec == ServerInit /\ [][ServerNext]_vars

\* --------------------------------------------------------------- ChannelSpec
\* WebChannel, the client transport: the relay's offer starts a connection, the
\* server's two data channels arrive on it, open and close.

\* new RTCPeerConnection(RTC_CONFIG) in startConnection. ordered / unordered are
\* the readyState of the data channel with that label, "none" until the
\* datachannel event; orderedOpened / unorderedOpened remember an open;
\* chain is the promise chain that startConnection starts.
RTCPeerConnection ==
    [ordered |-> "none", unordered |-> "none",
     orderedOpened |-> FALSE, unorderedOpened |-> FALSE,
     remoteDescription |-> FALSE, localDescription |-> FALSE,
     chain |-> "pending", candidates |-> {}]

\* The client transport's state as a record.
ChannelState == [webChannel |-> webChannel, rtc |-> rtc]

\* WebChannel.connected: !!this.orderedChannel && !!this.unorderedChannel
channelConnected(S) ==
    S.webChannel.orderedChannel # 0 /\ S.webChannel.unorderedChannel # 0

\* WebChannel.startConnection
startConnection(S) ==
    [S EXCEPT !.rtc = Append(@, RTCPeerConnection),
              !.webChannel.remoteConnection = Len(S.rtc) + 1]

\* An onMessage that starts a connection for a candidate that finds none.
channelOnMessageEager(S, target, from, message) ==
    IF from # target THEN S
    ELSE IF "type" \notin DOMAIN message THEN S
    ELSE IF message.type = "offer" THEN startConnection(S)
    ELSE IF message.type = "candidate"
    THEN IF S.webChannel.remoteConnection # 0
         THEN [S EXCEPT !.rtc[S.webChannel.remoteConnection].candidates =
                            @ \cup {message.candidate}]
         ELSE startConnection(S)
    ELSE S

\* An onMessage that does not look at the sender.
channelOnMessageAnySender(S, target, from, message) ==
    IF "type" \notin DOMAIN message THEN S
    ELSE IF message.type = "offer" THEN startConnection(S)
    ELSE IF message.type = "candidate"
    THEN IF S.webChannel.remoteConnection # 0
         THEN [S EXCEPT !.rtc[S.webChannel.remoteConnection].candidates =
                            @ \cup {message.candidate}]
         ELSE S
    ELSE S

\* WebChannel: relayServer.onMessage
channelOnMessage(S, target, from, message) ==
    IF from # target THEN S
    ELSE IF "type" \notin DOMAIN message THEN S
    ELSE IF message.type = "offer" THEN startConnection(S)
    ELSE IF message.type = "candidate"
    THEN IF S.webChannel.remoteConnection # 0
         THEN [S EXCEPT !.rtc[S.webChannel.remoteConnection].candidates =
                            @ \cup {message.candidate}]
         ELSE S
    ELSE S

\* A promise chain that sends its answer twice.
answerChainTwice(S, g) ==
    [S EXCEPT !.rtc[g].remoteDescription = TRUE, !.rtc[g].chain = "done",
              !.rtc[g].localDescription = TRUE, !.webChannel.answers = @ + 2]

\* The promise chain of startConnection for connection g: its remote description
\* is set, then this.remoteConnection (the latest connection) makes the answer,
\* sets it as local description and the answer is relayed. createAnswer is
\* rejected on a connection that has no remote offer yet, which ends the chain.
answerChain(S, g) ==
    LET S1 == [S EXCEPT !.rtc[g].remoteDescription = TRUE, !.rtc[g].chain = "done"]
        c  == S.webChannel.remoteConnection
    IN  IF S1.rtc[c].remoteDescription
        THEN [S1 EXCEPT !.rtc[c].localDescription = TRUE, !.webChannel.answers = @ + 1]
        ELSE S1

\* WebChannel.receiveOrderedChannel
receiveOrderedChannel(S, g) == [S EXCEPT !.webChannel.orderedChannel = g]

\* WebChannel.receiveUnorderedChannel
receiveUnorderedChannel(S, g) == [S EXCEPT !.webChannel.unorderedChannel = g]

\* WebChannel.handleOrderedReceiveChannelStatusChange: the readyState is that of
\* the channel the transport holds.
handleOrderedReceiveChannelStatusChange(S) ==
    IF S.webChannel.orderedChannel = 0 THEN S
    ELSE IF S.rtc[S.webChannel.orderedChannel].ordered = "open"
    THEN IF channelConnected(S)
         THEN [S EXCEPT !.webChannel.onConnectCalls = @ + 1] ELSE S
    ELSE [(IF channelConnected(S)
           THEN [S EXCEPT !.webChannel.onDisconnectCalls = @ + 1] ELSE S)
          EXCEPT !.webChannel.orderedChannel = 0]

\* WebChannel.handleUnorderedReceiveChannelStatusChange
handleUnorderedReceiveChannelStatusChange(S) ==
    IF S.webChannel.unorderedChannel = 0 THEN S
    ELSE IF S.rtc[S.webChannel.unorderedChannel].unordered = "open"
    THEN IF channelConnected(S)
         THEN [S EXCEPT !.webChannel.onConnectCalls = @ + 1] ELSE S
    ELSE [(IF channelConnected(S)
           THEN [S EXCEPT !.webChannel.onDisconnectCalls = @ + 1] ELSE S)
          EXCEPT !.webChannel.unorderedChannel = 0]

\* ---- bounds and inputs

\* Offers the transport may be given, each starting a connection.
MaxOffers == 2

\* The relay identity of the server this transport was built for.
Target == "server"

\* Relay identities that send to the client.
Senders == {Target, "eve"}

\* Messages the relay may deliver to the client.
ChannelRelayInputs ==
    { [type |-> "offer"], [type |-> "candidate", candidate |-> "c1"],
      [type |-> "answer"], [text |-> "hello"] }

\* ---- actions

ChannelBecomes(S) ==
    /\ webChannel' = S.webChannel
    /\ rtc' = S.rtc

ChannelInit ==
    /\ ClientIdle /\ TransportIdle /\ WorldIdle /\ ChannelIdle
    /\ wire = <<>>
    /\ op = [name |-> "init"]
    /\ ticks = 0

\* The relay delivers a message to the client.
ChannelRelayMessage(from, message) ==
    /\ (from = Target /\ "type" \in DOMAIN message /\ message.type = "offer")
          => Len(rtc) < MaxOffers
    /\ ChannelBecomes(channelOnMessage(ChannelState, Target, from, message))
    /\ op' = [name |-> "relay", from |-> from, message |-> message]

\* The promise chain of connection g runs.
AnswerCreated(g) ==
    /\ rtc[g].chain = "pending"
    /\ ChannelBecomes(answerChain(ChannelState, g))
    /\ op' = [name |-> "answer", connection |-> g]

\* The datachannel event of a negotiated connection for the ordered channel.
OrderedArrives(g) ==
    /\ rtc[g].localDescription
    /\ rtc[g].ordered = "none"
    /\ ChannelBecomes(receiveOrderedChannel(
          [ChannelState EXCEPT !.rtc[g].ordered = "connecting"], g))
    /\ op' = [name |-> "orderedArrives", connection |-> g]

\* The datachannel event of a negotiated connection for the unordered channel.
UnorderedArrives(g) ==
    /\ rtc[g].localDescription
    /\ rtc[g].unordered = "none"
    /\ ChannelBecomes(receiveUnorderedChannel(
          [ChannelState EXCEPT !.rtc[g].unordered = "connecting"], g))
    /\ op' = [name |-> "unorderedArrives", connection |-> g]

\* An ordered channel that arrived opens: onopen.
OrderedOpens(g) ==
    /\ rtc[g].ordered = "connecting"
    /\ ChannelBecomes(handleOrderedReceiveChannelStatusChange(
          [ChannelState EXCEPT !.rtc[g].ordered = "open",
                               !.rtc[g].orderedOpened = TRUE]))
    /\ op' = [name |-> "orderedOpens", connection |-> g]

\* An unordered channel that arrived opens: onopen.
UnorderedOpens(g) ==
    /\ rtc[g].unordered = "connecting"
    /\ ChannelBecomes(handleUnorderedReceiveChannelStatusChange(
          [ChannelState EXCEPT !.rtc[g].unordered = "open",
                               !.rtc[g].unorderedOpened = TRUE]))
    /\ op' = [name |-> "unorderedOpens", connection |-> g]

\* An ordered channel that arrived closes: onclose.
OrderedCloses(g) ==
    /\ rtc[g].ordered \in {"connecting", "open"}
    /\ ChannelBecomes(handleOrderedReceiveChannelStatusChange(
          [ChannelState EXCEPT !.rtc[g].ordered = "closed"]))
    /\ op' = [name |-> "orderedCloses", connection |-> g]

\* An unordered channel that arrived closes: onclose.
UnorderedCloses(g) ==
    /\ rtc[g].unordered \in {"connecting", "open"}
    /\ ChannelBecomes(handleUnorderedReceiveChannelStatusChange(
          [ChannelState EXCEPT !.rtc[g].unordered = "closed"]))
    /\ op' = [name |-> "unorderedCloses", connection |-> g]

ChannelNext ==
    /\ \/ \E from \in Senders, message \in ChannelRelayInputs :
              ChannelRelayMessage(from, message)
       \/ \E g \in DOMAIN rtc : AnswerCreated(g)
       \/ \E g \in DOMAIN rtc : OrderedArrives(g)
       \/ \E g \in DOMAIN rtc : UnorderedArrives(g)
       \/ \E g \in DOMAIN rtc : OrderedOpens(g)
       \/ \E g \in DOMAIN rtc : UnorderedOpens(g)
       \/ \E g \in DOMAIN rtc : OrderedCloses(g)
       \/ \E g \in DOMAIN rtc : UnorderedCloses(g)
    /\ UNCHANGED <<clientVars, transportVars, worldVars, wire, ticks>>

ChannelSpec == ChannelInit /\ [][ChannelNext]_vars

\* ---- claims about the client transport

\* C9: while the client transport has been given one connection, onConnect is
\* invoked at most once, exactly once when both of the connection's channels are
\* open, and only after both its ordered and its unordered channel have opened.
C9_ConnectOnceAfterBothOpen ==
    Len(rtc) = 1 =>
        /\ webChannel.onConnectCalls <= 1
        /\ (rtc[1].ordered = "open" /\ rtc[1].unordered = "open")
              => webChannel.onConnectCalls = 1
        /\ webChannel.onConnectCalls >= 1
              => (rtc[1].orderedOpened /\ rtc[1].unorderedOpened)

\* C35: a message from a sender other than the target, whatever its type, leaves
\* the client transport as it was: the same connection objects with the same
\* descriptions, candidates and pending chains, the same channels, the same
\* connected, no callback and no answer; only a message from the target changes
\* any of them.
C35_OnlyTargetIsHeard ==
    [][op'.name = "relay" =>
         /\ op'.from # Target =>
               /\ rtc' = rtc
               /\ webChannel' = webChannel
               /\ channelConnected(ChannelState') = channelConnected(ChannelState)
         /\ (rtc' # rtc \/ webChannel' # webChannel) =>
               /\ op'.from = Target
               /\ op'.message.type \in {"offer", "candidate"}]_vars

\* An offer from another sender has reached a client that holds a connection,
\* and a candidate from another sender too.
C35_Witness ==
    /\ op.name = "relay"
    /\ op.from # Target
    /\ op.message = [type |-> "offer"]
    /\ Len(rtc) = 1
    /\ rtc[1].candidates = {}


\* ------------------------------------------------------------------ MoveSpec
\* AbstractWorld.moveEntities on its own, for both worlds: entities that stand
\* on floor next to the walls, any input flags, either step size, any exclusion.

\* moveStep of the server world: MOVE_SPEED * stepSize, ServerWorld passes 1.
ServerMoveStep == MOVE_SPEED * 1

\* The step sizes of the two worlds.
MoveSteps == {ServerMoveStep, ClientMoveStep}

\* moveEntities calls a run may make.
MaxMoves == 2

\* Floor positions: the four corners of the room and one place in the open.
FloorPositions == { <<8, 12>>, <<455, 12>>, <<8, 267>>, <<455, 267>>, <<100, 100>> }

\* Control bit fields an entity is given.
ControlInputs == { 0, LEFT, RIGHT + DOWN, UP + LEFT, UP + DOWN + RIGHT }

\* The entity with its input flags set from a control bit field.
WithControls(e, controls) ==
    [e EXCEPT !.left = HasBit(controls, LEFT), !.right = HasBit(controls, RIGHT),
              !.up = HasBit(controls, UP), !.down = HasBit(controls, DOWN)]

\* The worlds a run starts from: one entity, or two of which the first stands in
\* the open.
MoveWorlds ==
    { << WithControls(Entity(1, p[1], p[2], 1), c) >> :
          p \in FloorPositions, c \in ControlInputs }
    \cup
    { << Entity(1, 100, 100, 1), WithControls(Entity(2, p[1], p[2], 2), c) >> :
          p \in {<<8, 12>>, <<455, 267>>}, c \in {LEFT, RIGHT + DOWN} }

MoveInit ==
    /\ entities \in MoveWorlds
    /\ myId = 0 /\ lastSequenceNumber = 0 /\ localSequenceNumber = 0 /\ nameById = <<>>
    /\ TransportIdle /\ WorldIdle /\ ChannelIdle
    /\ wire = <<>>
    /\ op = [name |-> "init"]
    /\ ticks = 0

\* moveEntities(exclude) with the step size of one of the worlds.
Move(exclude, moveStep) ==
    /\ ticks < MaxMoves
    /\ entities' = moveEntities(entities, exclude, moveStep)
    /\ ticks' = ticks + 1
    /\ op' = [name |-> "move", exclude |-> exclude, moveStep |-> moveStep]
    /\ UNCHANGED <<myId, lastSequenceNumber, localSequenceNumber, nameById>>

\* The input flags of an entity are set (a key, a report or a snapshot).
SetControls(i, controls) ==
    /\ entities' = [entities EXCEPT ![i] = WithControls(@, controls)]
    /\ op' = [name |-> "controls", entity |-> i, controls |-> controls]
    /\ UNCHANGED <<myId, lastSequenceNumber, localSequenceNumber, nameById, ticks>>

MoveNext ==
    /\ \/ \E exclude \in 0..Len(entities), moveStep \in MoveSteps : Move(exclude, moveStep)
       \/ \E i \in 1..Len(entities), controls \in ControlInputs : SetControls(i, controls)
    /\ UNCHANGED <<transportVars, worldVars, channelVars, wire>>

MoveSpec == MoveInit /\ [][MoveNext]_vars

\* ---- claims about movement

\* The place an entity's input flags send it to with this step size.
Candidate(e, moveStep) ==
    << e.x + (IF e.right THEN moveStep ELSE 0) - (IF e.left THEN moveStep ELSE 0),
       e.y + (IF e.down THEN moveStep ELSE 0) - (IF e.up THEN moveStep ELSE 0) >>

\* The candidate is another place than the entity's, and the map blocks it.
BlockedMove(e, moveStep) ==
    /\ Candidate(e, moveStep) # <<e.x, e.y>>
    /\ blockedAt(Candidate(e, moveStep)[1], Candidate(e, moveStep)[2])

\* C13: no entity is ever at a position that map.blockedAt blocks; a
\* moveEntities step leaves the excluded entity alone, and an entity whose
\* candidate destination is blocked keeps its position with moving set to true.
C13_NeverOnBlocked ==
    /\ [](\A i \in 1..Len(entities) : ~blockedAt(entities[i].x, entities[i].y))
    /\ [][op'.name = "move" =>
            \A i \in 1..Len(entities) :
                /\ i = op'.exclude => entities'[i] = entities[i]
                /\ (i # op'.exclude /\ BlockedMove(entities[i], op'.moveStep))
                      => /\ entities'[i].x = entities[i].x
                         /\ entities'[i].y = entities[i].y
                         /\ entities'[i].moving
         ]_vars

\* A moveEntities step has just left an entity in front of a wall: it is marked
\* moving and the place its flags send it to is blocked.
C13_Witness ==
    /\ op.name = "move"
    /\ \E i \in 1..Len(entities) :
          /\ i # op.exclude
          /\ entities[i].moving
          /\ BlockedMove(entities[i], op.moveStep)
          /\ ~blockedAt(entities[i].x, entities[i].y)


\* ----------------------------------------------------------------- WorldSpec
\* ServerWorld in a running session: client state reports and the update timer.

\* The last sequence number before the server's counter starts again from 0.
MaxSequence == 50000

\* A server that has been ticking without a peer up to this sequence number.
IdleServer(sequence) ==
    [clients |-> <<>>, peers |-> <<>>, nextId |-> 1,
     serverEntities |-> <<>>, nextEntityId |-> 1,
     clientToEntity |-> <<>>, sequenceNumber |-> sequence]

\* A peer's way into the roster up to its answer: connect, offer, answer.
Negotiated(S, username) ==
    LET S1 == relayOnMessage(S, username, [type |-> "connect"])
        S2 == [S1 EXCEPT !.peers[S.nextId].offerSent = TRUE]
    IN  relayOnMessage(S2, username, [type |-> "answer"])

\* A negotiated peer whose unordered channel alone has opened.
HalfJoined(S, username) ==
    handleUnorderedStatusChange(
        [Negotiated(S, username) EXCEPT !.peers[S.nextId].unorderedState = "open",
                                        !.peers[S.nextId].unorderedOpened = TRUE],
        S.nextId, <<0, 0, 0>>)

\* A peer both of whose channels have opened, the ordered one last.
Joined(S, username, spawn) ==
    handleOrderedStatusChange(
        [HalfJoined(S, username) EXCEPT !.peers[S.nextId].orderedState = "open",
                                        !.peers[S.nextId].orderedOpened = TRUE],
        S.nextId, spawn)

\* blockedAt of the first two words of a report; a missing word makes the tile
\* index NaN, the tile undefined and the position blocked.
reportBlocked(array) ==
    \/ At(array, 0) = Undefined
    \/ At(array, 1) = Undefined
    \/ blockedAt(At(array, 0), At(array, 1))

\* A clientStateReceived that takes the report's position as it comes.
clientStateReceivedUnchecked(S, id, array) ==
    IF id \notin DOMAIN S.clientToEntity THEN S
    ELSE [S EXCEPT !.serverEntities[FindById(S.serverEntities, S.clientToEntity[id])] =
             updateState(@, At(array, 0), At(array, 1), @.type,
                         HasBit(At(array, 2), LEFT), HasBit(At(array, 2), RIGHT),
                         HasBit(At(array, 2), UP), HasBit(At(array, 2), DOWN))]

\* A clientStateReceived that gives the report to the first entity of the world.
clientStateReceivedFirst(S, id, array) ==
    IF S.serverEntities = <<>> \/ reportBlocked(array) THEN S
    ELSE [S EXCEPT !.serverEntities[1] =
             updateState(@, At(array, 0), At(array, 1), @.type,
                         HasBit(At(array, 2), LEFT), HasBit(At(array, 2), RIGHT),
                         HasBit(At(array, 2), UP), HasBit(At(array, 2), DOWN))]

\* ServerWorld.clientStateReceived, array being new Uint16Array(buffer).
clientStateReceived(S, id, array) ==
    IF id \notin DOMAIN S.clientToEntity THEN S
    ELSE IF reportBlocked(array) THEN S
    ELSE [S EXCEPT !.serverEntities[FindById(S.serverEntities, S.clientToEntity[id])] =
             updateState(@, At(array, 0), At(array, 1), @.type,
                         HasBit(At(array, 2), LEFT), HasBit(At(array, 2), RIGHT),
                         HasBit(At(array, 2), UP), HasBit(At(array, 2), DOWN))]

\* A sequence number step that never starts again from 0.
NextSequenceUnbounded(sequence) == sequence + 1

\* The update timer's sequence number step.
NextSequence(sequence) == IF sequence + 1 > MaxSequence THEN 0 ELSE sequence + 1

\* Some roster peer is connected, so sendToAll sends the buffer.
HasReceiver(S) == \E i \in 1..Len(S.clients) : connected(S.peers[S.clients[i]])

\* The update timer of ServerWorld: the sequence number steps, the snapshot is
\* built, then the entities move.
serverTick(S) ==
    [S EXCEPT !.sequenceNumber = NextSequence(@),
              !.serverEntities = moveEntities(@, 0, ServerMoveStep)]

\* ---- bounds and inputs

\* Update timer callbacks a run may take.
MaxWorldTicks == 1

\* Sequence numbers the session has reached when the run starts.
WorldSeqs == {7, MaxSequence}

\* Sessions: ann and bob have joined, cat has only its unordered channel open.
SessionWorlds ==
    { HalfJoined(Joined(Joined(IdleServer(q), "ann", s1), "bob", s2), "cat") :
          q \in WorldSeqs, s1 \in Spawns, s2 \in Spawns }

\* Reports, as the words of the received buffer: floor positions, positions just
\* outside the floor, outside the map, a short buffer and an empty one.
ReportInputs ==
    { <<120, 104, RIGHT + DOWN>>, <<8, 12, LEFT>>, <<7, 12, RIGHT>>, <<0, 0, UP>>,
      <<472, 100, LEFT>>, <<100, 100>>, <<>> }

\* ---- actions

WorldInit ==
    /\ \E S \in SessionWorlds : 
          /\ clients = S.clients
          /\ peers = S.peers
          /\ nextId = S.nextId
          /\ serverEntities = S.serverEntities
          /\ nextEntityId = S.nextEntityId
          /\ clientToEntity = S.clientToEntity
          /\ sequenceNumber = S.sequenceNumber
    /\ simulateNetworkDelayAndLoss = FALSE
    /\ timeouts = {}
    /\ ClientIdle /\ ChannelIdle
    /\ wire = <<>>
    /\ op = [name |-> "init"]
    /\ ticks = 0

\* server.onUnorderedBinary: a report arrives on a peer's open unordered channel.
ReportReceived(id, array) ==
    /\ peers[id].unorderedState = "open"
    /\ Becomes(clientStateReceived(ServerState, id, array))
    /\ op' = [name |-> "report", peer |-> id, data |-> array]
    /\ UNCHANGED <<wire, ticks>>

\* The update timer fires; the snapshot is lost on its way or not.
WorldTick(lost) ==
    /\ ticks < MaxWorldTicks
    /\ Becomes(serverTick(ServerState))
    /\ wire' = IF lost \/ ~HasReceiver(ServerState) THEN wire
               ELSE createState(NextSequence(sequenceNumber), serverEntities)
    /\ ticks' = ticks + 1
    /\ op' = [name |-> "tick", lost |-> lost]

WorldNext ==
    /\ \/ \E id \in DOMAIN peers, array \in ReportInputs : ReportReceived(id, array)
       \/ \E lost \in BOOLEAN : WorldTick(lost)
    /\ UNCHANGED <<clientVars, channelVars>>

WorldSpec == WorldInit /\ [][WorldNext]_vars

\* ---- claims about the server world

\* C12: a report whose position is blocked leaves every entity of the server
\* world as it was, the sender's included, and sends nothing to any peer.
C12_BlockedReportIgnored ==
    [][(op'.name = "report" /\ reportBlocked(op'.data))
          => /\ serverEntities' = serverEntities
             /\ clientToEntity' = clientToEntity
             /\ \A id \in DOMAIN peers : peers'[id].sent = peers[id].sent
             /\ wire' = wire
      ]_vars

\* A peer with a moved entity has just reported a position of its own making
\* that the map blocks.
C12_Witness ==
    /\ op.name = "report"
    /\ Len(op.data) = 3
    /\ blockedAt(op.data[1], op.data[2])
    /\ op.peer \in DOMAIN clientToEntity
    /\ LET e == serverEntities[FindById(serverEntities, clientToEntity[op.peer])]
       IN  /\ <<e.x, e.y>> # <<op.data[1], op.data[2]>>
           /\ ControlBits(e) # op.data[3]
           /\ e.moving


\* ---------------------------------------------------------------- ReportSpec
\* Client state reports on their own: reports of any position from peers with an
\* entity, from a peer that has left and from a peer that never connected.

\* Sessions: ann and bob have joined, cat has joined and left through the close
\* of its ordered channel, dan has only its unordered channel open.
ReportSessions ==
    { LET S == Joined(Joined(Joined(IdleServer(7), "ann", s1), "bob", <<199, 199, 8>>),
                      "cat", <<150, 150, 3>>)
      IN  HalfJoined(handleOrderedStatusChange(
                        [S EXCEPT !.peers[3].orderedState = "closed"], 3, <<0, 0, 0>>),
                     "dan") : s1 \in Spawns }

\* The x and y words of a report: on the floor, on its last pixel, in the wall,
\* beyond the last tile column or row, and the largest word.
ReportXs == {100, 455, 456, 496, 65535}
ReportYs == {28, 267, 300}

\* Reports as the words of the received buffer, a short one and an empty one
\* among them.
ReportWords ==
    { <<x, y, c>> : x \in ReportXs, y \in ReportYs, c \in {0, LEFT + UP} }
        \cup { <<100, 100>>, <<>> }

ReportInit ==
    /\ \E S \in ReportSessions :
          /\ clients = S.clients
          /\ peers = S.peers
          /\ nextId = S.nextId
          /\ serverEntities = S.serverEntities
          /\ nextEntityId = S.nextEntityId
          /\ clientToEntity = S.clientToEntity
          /\ sequenceNumber = S.sequenceNumber
    /\ simulateNetworkDelayAndLoss = FALSE
    /\ timeouts = {}
    /\ ClientIdle /\ ChannelIdle
    /\ wire = <<>>
    /\ op = [name |-> "init"]
    /\ ticks = 0

ReportNext ==
    /\ \E id \in DOMAIN peers, array \in ReportWords : ReportReceived(id, array)
    /\ UNCHANGED <<clientVars, channelVars>>

ReportSpec == ReportInit /\ [][ReportNext]_vars

\* ---- claims about client state reports

\* The index in the entity list of the entity bound to a peer, 0 if none.
BoundEntity(id) ==
    IF id \in DOMAIN clientToEntity
    THEN FindById(serverEntities, clientToEntity[id]) ELSE 0

\* C24: a report from a peer changes at most the entity bound to that peer: an
\* accepted report sets its position and its four input flags from the report
\* and keeps its id, type and everything else; every other entity, the binding
\* of peers to entities and the rest of the server are unchanged; a report from
\* a peer without an entity changes nothing.
C24_ReportTouchesOwnEntityOnly ==
    [][op'.name = "report" =>
          /\ UNCHANGED <<transportVars, nextEntityId, clientToEntity, sequenceNumber>>
          /\ Len(serverEntities') = Len(serverEntities)
          /\ \A i \in 1..Len(serverEntities) :
                i # BoundEntity(op'.peer) => serverEntities'[i] = serverEntities[i]
          /\ LET i == BoundEntity(op'.peer)
             IN  (i # 0 /\ ~reportBlocked(op'.data)) =>
                    serverEntities'[i] =
                       [serverEntities[i] EXCEPT
                          !.x = op'.data[1], !.y = op'.data[2],
                          !.left  = HasBit(At(op'.data, 2), LEFT),
                          !.right = HasBit(At(op'.data, 2), RIGHT),
                          !.up    = HasBit(At(op'.data, 2), UP),
                          !.down  = HasBit(At(op'.data, 2), DOWN)]
      ]_vars

\* The second peer's report has just been accepted and has changed its entity,
\* while the first peer's entity stands where an earlier report put it.
C24_Witness ==
    /\ op.name = "report"
    /\ op.peer = 2
    /\ ~reportBlocked(op.data)
    /\ serverEntities[2].id = clientToEntity[2]
    /\ <<serverEntities[2].x, serverEntities[2].y>> = <<op.data[1], op.data[2]>>
    /\ serverEntities[2].left /\ serverEntities[2].up
    /\ <<serverEntities[1].x, serverEntities[1].y>> = <<455, 267>>
    /\ Len(serverEntities) = 2

\* The tile under a pixel position lies beyond the last column or row of the map.
OutOfRange(x, y) ==
    \/ (x + 8) \div 16 >= width
    \/ (y + 20) \div 16 >= height

\* C25: a report whose position is out of range of the map leaves the entity of
\* its peer, and every other, as it was.
C25_OutOfRangeReportIgnored ==
    [][(/\ op'.name = "report"
        /\ Len(op'.data) >= 2
        /\ OutOfRange(op'.data[1], op'.data[2]))
          => serverEntities' = serverEntities
      ]_vars


\* -------------------------------------------------------------------- GcSpec
\* A session end to end: the server world with three joined peers, the client
\* world of one of them, snapshots from the update timer to that client, and
\* the other peers leaving.

\* The peer whose client world the run follows.
ClientPeer == "ann"

\* Sequence numbers the session has reached when the run starts.
GcSeqs == {7, MaxSequence - 1, MaxSequence}

\* Sessions: ann, bob and cat have joined.
GcSessions ==
    { Joined(Joined(Joined(IdleServer(q), ClientPeer, s1), "bob", s2), "cat", s1) :
          q \in GcSeqs, s1 \in Spawns, s2 \in Spawns }

\* ClientWorld.handleReliable over the messages a peer has been sent: the names.
NamesFrom(sent) ==
    LET RECURSIVE Each(_, _)
        Each(names, i) ==
            IF i > Len(sent) THEN names
            ELSE Each(IF sent[i].type = "name"
                      THEN [k \in DOMAIN names \cup {sent[i].entityId} |->
                              IF k = sent[i].entityId THEN sent[i].name ELSE names[k]]
                      ELSE names, i + 1)
    IN  Each(<<>>, 1)

\* The session as the server holds it, and the client world of ClientPeer after
\* its identify, time and name messages and the snapshot of the current
\* sequence number.
GcInit ==
    /\ \E S \in GcSessions :
          LET me == FindClient(S, ClientPeer)
              h  == handleState(<<>>, S.clientToEntity[me], 0,
                                S.sequenceNumber * StepsPerTick,
                                createState(S.sequenceNumber, S.serverEntities))
          IN  /\ clients = S.clients
              /\ peers = S.peers
              /\ nextId = S.nextId
              /\ serverEntities = S.serverEntities
              /\ nextEntityId = S.nextEntityId
              /\ clientToEntity = S.clientToEntity
              /\ sequenceNumber = S.sequenceNumber
              /\ simulateNetworkDelayAndLoss = FALSE
              /\ timeouts = {}
              /\ myId = S.clientToEntity[me]
              /\ nameById = NamesFrom(S.peers[me].sent)
              /\ entities = h.entities
              /\ lastSequenceNumber = h.lastSequenceNumber
              /\ localSequenceNumber = h.localSequenceNumber
    /\ ChannelIdle
    /\ wire = <<>>
    /\ op = [name |-> "init"]
    /\ ticks = 0

\* A channel of another peer closes.
PeerLeaves(id) ==
    /\ peers[id].username # ClientPeer
    /\ OrderedClose(id) \/ UnorderedClose(id)
    /\ UNCHANGED <<clientVars, wire, ticks>>

\* The snapshot on its way reaches the client.
Deliver ==
    /\ wire # <<>>
    /\ HandleState(wire)
    /\ wire' = <<>>
    /\ UNCHANGED <<transportVars, worldVars>>

GcNext ==
    /\ \/ \E id \in DOMAIN peers : PeerLeaves(id)
       \/ \E lost \in BOOLEAN : WorldTick(lost) /\ UNCHANGED clientVars
       \/ Deliver
    /\ UNCHANGED channelVars

GcSpec == GcInit /\ [][GcNext]_vars

\* ---- claims about a session

\* onDisconnect has been invoked for some peer.
Departed == \E id \in DOMAIN peers : peers[id].onDisconnectCalls >= 1

\* The client holds an entity that its reading of the server's current
\* snapshot does not carry.
HoldsOmitted ==
    \E i \in 1..Len(entities) :
        entities[i].id \notin
            IdSet(DecodeRecords(createState(sequenceNumber, serverEntities), 2))

\* The client reads the highest sequence number the server sends for this
\* world as newer than the last one it accepted.
CanStillAccept ==
    ~IsOld(DecodeSeq(createState(MaxSequence, serverEntities)), lastSequenceNumber)

\* C14: after a peer has disconnected, a remaining client that has been handed
\* the server's current snapshot and still holds an entity the snapshot omits
\* is rid of it by a later snapshot, so some sequence number the server still
\* sends must read as newer to it; wherever the counter was at the disconnect.
C14_DepartedEntityCollected ==
    (/\ Departed
     /\ op.name = "handleState"
     /\ op.buffer = createState(sequenceNumber, serverEntities)
     /\ HoldsOmitted)
        => CanStillAccept


\* ---------------------------------------------------------------- RosterSpec
\* The roster of WebChannelServer on its own: connection requests add peers,
\* removeClient is called for any peer ever created, on the roster or not.

\* WebChannelClient peers a run of the roster may create.
MaxRosterPeers == 3

RosterInit == ServerInit

\* relayServer.onMessage with a connect message.
RosterConnect(from) ==
    /\ Len(peers) < MaxRosterPeers
    /\ Becomes(relayOnMessage(ServerState, from, [type |-> "connect"]))
    /\ op' = [name |-> "connect", from |-> from]

\* WebChannelServer.removeClient(client)
RemoveClient(id) ==
    /\ Becomes(removeClient(ServerState, id))
    /\ op' = [name |-> "remove", peer |-> id, present |-> InRoster(clients, id)]

RosterNext ==
    /\ \/ \E from \in Usernames : RosterConnect(from)
       \/ \E id \in DOMAIN peers : RemoveClient(id)
    /\ UNCHANGED <<clientVars, channelVars, wire, ticks>>

RosterSpec == RosterInit /\ [][RosterNext]_vars

\* ---- claims about the roster

\* C20: removeClient of a peer that is not on the roster leaves the roster as it
\* is; of a peer on the roster it takes out that one entry and keeps every other
\* entry in its order; nothing else changes either way.
C20_RemoveClientIdempotent ==
    [][op'.name = "remove" =>
          /\ UNCHANGED <<peers, nextId, worldVars>>
          /\ IF ~InRoster(clients, op'.peer)
             THEN clients' = clients
             ELSE \E k \in 1..Len(clients) :
                     /\ clients[k] = op'.peer
                     /\ clients' = SubSeq(clients, 1, k - 1)
                                      \o SubSeq(clients, k + 1, Len(clients))
                     /\ ~InRoster(clients', op'.peer)
      ]_vars

\* The peer in the middle of a roster of three was removed, and removing it
\* once more has just left the two others in place.
C20_Witness ==
    /\ op = [name |-> "remove", peer |-> 2, present |-> FALSE]
    /\ clients = <<1, 3>>


\* C23: every peer the server creates gets the id nextId, greater than the id of
\* every peer created before, and nextId moves on by one; removing a peer from
\* the roster gives no id back, so the ids of all peers ever created are
\* pairwise distinct.
C23_PeerIdsIncrease ==
    /\ [](/\ \A j, k \in DOMAIN peers : j < k => peers[j].id < peers[k].id
          /\ \A k \in DOMAIN peers : peers[k].id < nextId
          /\ \A j, k \in 1..Len(clients) : j # k => clients[j] # clients[k])
    /\ [][IF op'.name = "connect"
          THEN /\ Len(peers') = Len(peers) + 1
               /\ peers'[Len(peers')].id = nextId
               /\ SubSeq(peers', 1, Len(peers)) = peers
               /\ clients' = Append(clients, nextId)
               /\ nextId' = nextId + 1
          ELSE nextId' = nextId /\ peers' = peers
        ]_vars

\* The first peer has been removed and a third peer has just been created with
\* an id above both earlier ones.
C23_Witness ==
    /\ op.name = "connect"
    /\ clients = <<2, 3>>
    /\ peers[3].id = 3
    /\ nextId = 4

\* -------------------------------------------------------------- DispatchSpec
\* The four data channel message handlers of each transport: which registered
\* callback a received message is handed to, "none" when it is dropped.

\* The callbacks a transport's user may register.
Callbacks == {"onOrderedText", "onOrderedBinary", "onUnorderedText", "onUnorderedBinary"}

\* WebChannelClient.handleOrderedReceiveMessage, over the callbacks registered on
\* the server and typeof event.data === "string".
handleOrderedReceiveMessage(registered, isString) ==
    IF "onOrderedText" \in registered /\ isString THEN "onOrderedText"
    ELSE IF "onOrderedBinary" \in registered THEN "onOrderedBinary"
    ELSE "none"

\* WebChannelClient.handleUnorderedReceiveMessage
handleUnorderedReceiveMessage(registered, isString) ==
    IF "onUnorderedText" \in registered /\ isString THEN "onUnorderedText"
    ELSE IF "onUnorderedBinary" \in registered THEN "onUnorderedBinary"
    ELSE "none"

\* WebChannel.handleOrderedReceiveMessage
channelHandleOrderedReceiveMessage(registered, isString) ==
    IF "onOrderedText" \in registered /\ isString THEN "onOrderedText"
    ELSE IF "onOrderedBinary" \in registered THEN "onOrderedBinary"
    ELSE "none"

\* WebChannel.handleUnorderedReceiveMessage
channelHandleUnorderedReceiveMessage(registered, isString) ==
    IF "onUnorderedText" \in registered /\ isString THEN "onUnorderedText"
    ELSE IF "onUnorderedBinary" \in registered THEN "onUnorderedBinary"
    ELSE "none"

DispatchInit == ServerInit

\* A message arrives on a channel of a server-side peer.
ServerReceives(registered, channel, isString) ==
    /\ op' = [name |-> "serverReceive", registered |-> registered,
              channel |-> channel, isString |-> isString,
              invoked |-> IF channel = "ordered"
                          THEN handleOrderedReceiveMessage(registered, isString)
                          ELSE handleUnorderedReceiveMessage(registered, isString)]
    /\ UNCHANGED <<clientVars, transportVars, worldVars, channelVars, wire, ticks>>

\* A message arrives on a channel of the client transport.
ClientReceives(registered, channel, isString) ==
    /\ op' = [name |-> "clientReceive", registered |-> registered,
              channel |-> channel, isString |-> isString,
              invoked |-> IF channel = "ordered"
                          THEN channelHandleOrderedReceiveMessage(registered, isString)
                          ELSE channelHandleUnorderedReceiveMessage(registered, isString)]
    /\ UNCHANGED <<clientVars, transportVars, worldVars, channelVars, wire, ticks>>

DispatchNext ==
    \E registered \in SUBSET Callbacks, channel \in {"ordered", "unordered"},
       isString \in BOOLEAN :
          \/ ServerReceives(registered, channel, isString)
          \/ ClientReceives(registered, channel, isString)

DispatchSpec == DispatchInit /\ [][DispatchNext]_vars

\* ---- claims about message dispatch

\* The callback for a message of this kind on this channel.
CallbackFor(channel, isString) ==
    IF channel = "ordered"
    THEN (IF isString THEN "onOrderedText" ELSE "onOrderedBinary")
    ELSE (IF isString THEN "onUnorderedText" ELSE "onUnorderedBinary")

\* C17: on both transports a received message is handed to the callback
\* registered for its kind on its channel and to no other; when that callback is
\* not registered the message is dropped.
C17_OnlyTheKindsHandler ==
    op.name \in {"serverReceive", "clientReceive"} =>
        op.invoked = IF CallbackFor(op.channel, op.isString) \in op.registered
                     THEN CallbackFor(op.channel, op.isString)
                     ELSE "none"

\* ------------------------------------------------------------- TransportSpec
\* Either transport on its own: a run is a run of the server transport or a run
\* of the client transport.

TransportInit == ServerInit

TransportNext ==
    \/ ChannelIdle /\ ServerNext
    \/ TransportIdle /\ WorldIdle /\ ChannelNext

TransportSpec == TransportInit /\ [][TransportNext]_vars

\* ---- claims about both transports

\* The roster peers with this username.
RosterPeersOf(from) ==
    {clients[i] : i \in {j \in 1..Len(clients) : peers[clients[j]].username = from}}

\* The relay hands the server a message from a sender that is no answer and no
\* candidate, or has no type tag at all.
ServerUnexpected(o) ==
    /\ o.from \in Usernames
    /\ "type" \in DOMAIN o.message => o.message.type \notin {"answer", "candidate"}

\* The relay hands the client transport a message that is no offer and no
\* candidate, or has no type tag at all.
ClientUnexpected(o) ==
    /\ o.from \in Senders
    /\ "type" \in DOMAIN o.message => o.message.type \notin {"offer", "candidate"}

\* C18: a relay message without a type tag or with an unexpected one is dropped.
\* On the server every existing peer keeps its negotiation state, channel flags,
\* connection and sent messages, and the world is untouched; on the client the
\* transport and its connection are unchanged.
C18_UnexpectedMessageDropped ==
    [][op'.name = "relay" =>
          /\ ServerUnexpected(op') =>
                /\ \A id \in DOMAIN peers : id \in DOMAIN peers' /\ peers'[id] = peers[id]
                /\ UNCHANGED worldVars
          /\ ClientUnexpected(op') => UNCHANGED channelVars
      ]_vars

\* An offer has just reached the server from a sender whose roster peer is
\* waiting for its answer.
C18_Witness ==
    /\ op.name = "relay"
    /\ op.message = [type |-> "offer"]
    /\ op.from \in Usernames
    /\ \E t \in RosterPeersOf(op.from) :
          peers[t].offerSent /\ ~peers[t].remoteDescription


\* ----------------------------------------------------------------- TimerSpec
\* ServerWorld's update timer with and without simulated delay and loss, in a
\* session where peers report, join and leave between the ticks.

\* The entity ids of a snapshot as createState lays it out.
SnapshotIds(buffer) ==
    { buffer[2 + (5 * k)] : k \in 0..(((Len(buffer) - 1) \div 5) - 1) }

\* ServerWorld.sendToAll: the buffer and the roster peers whose unordered channel
\* is handed it.
sendToAll(S, buffer) ==
    [buffer |-> buffer,
     to |-> { S.clients[i] : i \in { j \in 1..Len(S.clients) :
                 /\ connected(S.peers[S.clients[j]])
                 /\ S.peers[S.clients[j]].unorderedChannel } }]

\* A delayed broadcast that builds its buffer when the timeout fires.
DelayedBufferAtFire(t, S) == createState(S.sequenceNumber, S.serverEntities)

\* The buffer the setTimeout callback sends: the const of the tick that made it.
DelayedBuffer(t, S) == t.buffer

\* ---- bounds and inputs

\* Update timer callbacks a run may take.
MaxTimerTicks == 2

\* Sequence numbers the session has reached when the run starts.
TimerSeqs == {7, MaxSequence - 1}

\* Sessions: ann and bob have joined, cat has only its unordered channel open.
TimerSessions ==
    { HalfJoined(Joined(Joined(IdleServer(q), "ann", <<100, 100, 1>>),
                        "bob", <<199, 199, 8>>), "cat") : q \in TimerSeqs }

\* Reports that set an entity moving.
TimerReports == { <<120, 104, RIGHT + DOWN>> }

\* The peers that report: ann.
TimerReporters == {1}

\* ---- actions

TimerInit ==
    /\ \E S \in TimerSessions :
          /\ clients = S.clients
          /\ peers = S.peers
          /\ nextId = S.nextId
          /\ serverEntities = S.serverEntities
          /\ nextEntityId = S.nextEntityId
          /\ clientToEntity = S.clientToEntity
          /\ sequenceNumber = S.sequenceNumber
    /\ simulateNetworkDelayAndLoss \in BOOLEAN
    /\ timeouts = {}
    /\ ClientIdle /\ ChannelIdle
    /\ wire = <<>>
    /\ op = [name |-> "init"]
    /\ ticks = 0

\* The update timer fires. With fault injection the broadcast is dropped
\* (Math.random() <= simulatedPacketLoss) or scheduled; without, it is sent.
\* `at` keeps what the world was when the buffer was built.
UpdateTimer(dropped) ==
    /\ ticks < MaxTimerTicks
    /\ dropped => simulateNetworkDelayAndLoss
    /\ LET seq    == NextSequence(sequenceNumber)
           buffer == createState(seq, serverEntities)
           sent   == sendToAll(ServerState, buffer)
       IN  IF simulateNetworkDelayAndLoss
           THEN /\ BecomesWith(serverTick(ServerState),
                       IF dropped THEN timeouts
                       ELSE timeouts \cup
                               {[buffer |-> buffer,
                                 at |-> [sequenceNumber |-> seq,
                                         entities |-> serverEntities]]})
                /\ wire' = wire
                /\ op' = [name |-> "tick",
                          fate |-> IF dropped THEN "dropped" ELSE "delayed"]
           ELSE /\ Becomes(serverTick(ServerState))
                /\ wire' = IF sent.to = {} THEN wire ELSE buffer
                /\ op' = [name |-> "tick", fate |-> "sent", sent |-> sent]
    /\ ticks' = ticks + 1

\* The timeout of a delayed broadcast fires.
TimeoutFires(t) ==
    /\ t \in timeouts
    /\ LET sent == sendToAll(ServerState, DelayedBuffer(t, ServerState))
       IN  /\ BecomesWith(ServerState, timeouts \ {t})
           /\ wire' = IF sent.to = {} THEN wire ELSE sent.buffer
           /\ op' = [name |-> "timeout", at |-> t.at, sent |-> sent]
    /\ ticks' = ticks

TimerNext ==
    /\ \/ \E dropped \in BOOLEAN : UpdateTimer(dropped)
       \/ \E t \in timeouts : TimeoutFires(t)
       \/ \E id \in TimerReporters, array \in TimerReports :
             ReportReceived(id, array)
       \/ \E id \in DOMAIN peers, spawn \in {<<150, 150, 3>>} :
             OrderedOpen(id, spawn) /\ UNCHANGED <<wire, ticks>>
       \/ \E id \in DOMAIN peers : OrderedClose(id) /\ UNCHANGED <<wire, ticks>>
    /\ UNCHANGED <<clientVars, channelVars>>

TimerSpec == TimerInit /\ [][TimerNext]_vars

\* ---- claims about the update timer

\* C21: every tick of the update timer moves the sequence number on by one,
\* whether its broadcast is sent, delayed or dropped, and from 50000 back to 0;
\* nothing else changes it, and it always lies in 0..50000, within 16 bits.
C21_SequenceStepsByOne ==
    /\ [](sequenceNumber \in 0..50000 /\ sequenceNumber < Word)
    /\ [][IF op'.name = "tick" /\ ticks' = ticks + 1
          THEN sequenceNumber' = IF sequenceNumber = 50000 THEN 0
                                 ELSE sequenceNumber + 1
          ELSE sequenceNumber' = sequenceNumber
        ]_vars

\* The tick after 50000 has just dropped its broadcast and started again from 0.
C21_Witness ==
    /\ op.name = "tick"
    /\ op.fate = "dropped"
    /\ sequenceNumber = 0
    /\ ticks = 2


\* C26: a delayed broadcast sends the buffer of the tick that scheduled it: the
\* sequence number of that tick and the entities as they were when it built the
\* buffer, whatever ticks, reports, joins and leaves came in between.
C26_DelayedSendsScheduledState ==
    [][/\ (op'.name = "tick" /\ op'.fate = "delayed") =>
             timeouts' = timeouts \cup
                {[buffer |-> createState(sequenceNumber', serverEntities),
                  at |-> [sequenceNumber |-> sequenceNumber',
                          entities |-> serverEntities]]}
       /\ op'.name = "timeout" =>
             /\ op'.sent.buffer = createState(op'.at.sequenceNumber, op'.at.entities)
             /\ \E t \in timeouts : t.at = op'.at /\ timeouts' = timeouts \ {t}
      ]_vars

\* A delayed broadcast has just been sent to a peer after a later tick, a move of
\* an entity and a change of the entity list.
C26_Witness ==
    /\ op.name = "timeout"
    /\ op.sent.to # {}
    /\ op.at.sequenceNumber # sequenceNumber
    /\ IdSeq(op.at.entities) # IdSeq(serverEntities)
    /\ \E i \in 1..Len(serverEntities) : \E j \in 1..Len(op.at.entities) :
          /\ serverEntities[i].id = op.at.entities[j].id
          /\ serverEntities[i].x # op.at.entities[j].x

\* The entity ids of the peers whose disconnect the server has processed, read
\* from the identify message each was sent.
DepartedIds ==
    UNION { { peers[id].sent[k].entityId :
                 k \in { n \in 1..Len(peers[id].sent) :
                            peers[id].sent[n].type = "identify" } } :
            id \in { p \in DOMAIN peers : peers[p].onDisconnectCalls > 0 } }

\* A snapshot has just been transmitted to some peer.
Transmitted(o) ==
    /\ o.name = "timeout" \/ (o.name = "tick" /\ o.fate = "sent")
    /\ o.sent.to # {}

\* C27 (as claimed): with fault injection on or off, no snapshot transmitted
\* after a peer's disconnect has been processed contains that peer's entity id.
C27_NoDepartedIdTransmitted ==
    [][Transmitted(op') => SnapshotIds(op'.sent.buffer) \cap DepartedIds' = {}]_vars

\* C27 (amended): no snapshot built after a peer's disconnect has been processed
\* contains that peer's entity id, so without fault injection none transmitted
\* afterwards does; a delayed broadcast carries the ids of the entities of its
\* own tick, a peer's that has left since among them.
C27_NoDepartedIdBuilt ==
    [][/\ (op'.name = "tick" /\ op'.fate = "sent") =>
             SnapshotIds(op'.sent.buffer) \cap DepartedIds' = {}
       /\ (op'.name = "tick" /\ op'.fate = "delayed") =>
             \A t \in timeouts' \ timeouts : SnapshotIds(t.buffer) \cap DepartedIds' = {}
       /\ (Transmitted(op') /\ ~simulateNetworkDelayAndLoss) =>
             SnapshotIds(op'.sent.buffer) \cap DepartedIds' = {}
       /\ op'.name = "timeout" =>
             SnapshotIds(op'.sent.buffer) = IdSet(op'.at.entities)
      ]_vars

\* Without fault injection a snapshot has just been sent to the peers that are
\* left after another peer's disconnect.
C27_Witness ==
    /\ Transmitted(op)
    /\ op.name = "tick"
    /\ DepartedIds # {}
    /\ serverEntities # <<>>

\* ------------------------------------------------------------- BroadcastSpec
\* The server transport from its start, with the update timer of ServerWorld
\* broadcasting to the roster as peers negotiate, open and close channels.

\* Update timer callbacks a run may take.
MaxBroadcastTicks == 1

BroadcastInit == ServerInit

\* The update timer fires, fault injection off: the snapshot goes to sendToAll.
Broadcast ==
    /\ ticks < MaxBroadcastTicks
    /\ UpdateTimer(FALSE)
    /\ UNCHANGED <<clientVars, channelVars>>

BroadcastNext == ServerNext \/ Broadcast

BroadcastSpec == BroadcastInit /\ [][BroadcastNext]_vars

\* ---- claims about the broadcast

\* Both data channels of a peer are open.
BothOpen(c) == c.orderedState = "open" /\ c.unorderedState = "open"

\* C28: a snapshot is sent to exactly the roster peers that are connected, both
\* channels open, when it is sent: to none that is still negotiating or has a
\* closed channel; and sending leaves the roster as it is.
C28_SentToConnectedRosterPeers ==
    [][(op'.name = "tick" /\ op'.fate = "sent") =>
          /\ op'.sent.to = { clients[i] : i \in { j \in 1..Len(clients) :
                                                    BothOpen(peers[clients[j]]) } }
          /\ clients' = clients
      ]_vars

\* --------------------------------------------------------------- ControlSpec
\* The four input flags on their way from a client to the server and from the
\* server to a client: sendState to clientStateReceived, createState to
\* handleState.

ControlInit ==
    /\ \E S \in {Joined(IdleServer(7), "ann", <<100, 100, 1>>)} :
          /\ clients = S.clients
          /\ peers = S.peers
          /\ nextId = S.nextId
          /\ serverEntities = S.serverEntities
          /\ nextEntityId = S.nextEntityId
          /\ clientToEntity = S.clientToEntity
          /\ sequenceNumber = S.sequenceNumber
    /\ simulateNetworkDelayAndLoss = FALSE
    /\ timeouts = {}
    /\ ClientIdle /\ ChannelIdle
    /\ wire = <<>>
    /\ op = [name |-> "init"]
    /\ ticks = 0

\* ann's client, its entity holding these flags, sends its state and the server
\* receives it.
ClientReports(left, right, up, down) ==
    LET e    == updateState(Entity(1, 120, 104, 1), 120, 104, 1, left, right, up, down)
        data == Uint16Array(<<e.x, e.y, ControlBits(e)>>)
    IN  /\ Becomes(clientStateReceived(ServerState, 1, data))
        /\ op' = [name |-> "clientToServer", flags |-> <<left, right, up, down>>,
                  data |-> data]
        /\ UNCHANGED <<clientVars, wire, ticks>>

\* The server builds the snapshot of its world for a client.
ServerEncodes ==
    /\ wire' = createState(sequenceNumber, serverEntities)
    /\ op' = [name |-> "createState"]
    /\ UNCHANGED <<clientVars, transportVars, worldVars, ticks>>

\* A client that holds no entity yet is handed the snapshot.
ClientDecodes ==
    /\ wire # <<>>
    /\ HandleState(wire)
    /\ wire' = <<>>
    /\ UNCHANGED <<transportVars, worldVars>>

ControlNext ==
    /\ \/ \E left \in BOOLEAN, right \in BOOLEAN, up \in BOOLEAN, down \in BOOLEAN :
             ClientReports(left, right, up, down)
       \/ ServerEncodes
       \/ ClientDecodes
    /\ UNCHANGED channelVars

ControlSpec == ControlInit /\ [][ControlNext]_vars

\* ---- claims about the control bits

\* The four input flags of an entity.
FlagsOf(e) == <<e.left, e.right, e.up, e.down>>

\* C31: the four flags a client encodes are the flags the server's entity holds
\* after it decodes the report, the encoded word being in 0..15; and the flags
\* of an entity the server encodes into a snapshot are the flags the entity of
\* that id holds on the client that decodes it.
C31_ControlBitsRoundTrip ==
    [][/\ op'.name = "clientToServer" =>
             /\ op'.data[3] \in 0..15
             /\ FlagsOf(serverEntities'[1]) = op'.flags
       /\ (op'.name = "handleState" /\ op'.accepted) =>
             \A i \in 1..Len(serverEntities) :
                /\ op'.buffer[5 * i + 1] \in 0..15
                /\ \E j \in 1..Len(entities') :
                      /\ entities'[j].id = serverEntities[i].id
                      /\ FlagsOf(entities'[j]) = FlagsOf(serverEntities[i])
      ]_vars

\* ------------------------------------------------------------- HandshakeSpec
\* One client transport and the server joined through the relay: the client's
\* connect, the server's offer, the client's answer, both sides' candidates and
\* the data channels that open once both sides are negotiated. Here wire is the
\* relay: toServer and toClient are the messages on their way, in the order they
\* were sent, and log is every message handed to relayServer.sendMessage.

\* The relay identity of the client.
ClientName == "ann"

\* Candidates each side's connection discovers, named by side and number.
MaxCandidates == 1

\* relayServer.sendMessage(to, message) by from.
sendMessage(relay, from, to, message) ==
    LET entry == [from |-> from, to |-> to, message |-> message]
    IN  IF to = Target
        THEN [relay EXCEPT !.toServer = Append(@, message), !.log = Append(@, entry)]
        ELSE [relay EXCEPT !.toClient = Append(@, message), !.log = Append(@, entry)]

\* The messages of one type that from has sent.
SentBy(from, type) ==
    { i \in DOMAIN wire.log : wire.log[i].from = from /\ wire.log[i].message.type = type }

HandshakeInit ==
    /\ ClientIdle /\ TransportIdle /\ WorldIdle /\ ChannelIdle
    /\ wire = [toServer |-> <<>>, toClient |-> <<>>, log |-> <<>>]
    /\ op = [name |-> "init"]
    /\ ticks = 0

\* WSRelayServer: the socket connects (reconnection: false) and the client
\* transport's relayServer.onConnected sends connect to its target.
ClientStarts ==
    /\ ticks = 0
    /\ ticks' = 1
    /\ wire' = sendMessage(wire, ClientName, Target, [type |-> "connect"])
    /\ op' = [name |-> "onConnected"]
    /\ UNCHANGED <<clientVars, transportVars, worldVars, channelVars>>

\* The relay delivers the client's next message to the server.
RelayToServer ==
    /\ wire.toServer # <<>>
    /\ Becomes(relayOnMessage(ServerState, ClientName, Head(wire.toServer)))
    /\ wire' = [wire EXCEPT !.toServer = Tail(@)]
    /\ op' = [name |-> "relay", from |-> ClientName, message |-> Head(wire.toServer)]
    /\ UNCHANGED <<clientVars, channelVars, ticks>>

\* createOffer() of peer id resolves: setLocalDescription(offer), then the offer
\* is sent to the peer's username.
OfferSent(id) ==
    /\ OfferCreated(id)
    /\ wire' = sendMessage(wire, Target, peers[id].username, [type |-> "offer"])
    /\ UNCHANGED <<clientVars, channelVars, ticks>>

\* localConnection.onicecandidate of peer id, gathering having started with
\* setLocalDescription: the candidate is sent to the peer's username.
ServerCandidate(id) ==
    /\ peers[id].offerSent
    /\ Cardinality(SentBy(Target, "candidate")) < MaxCandidates
    /\ wire' = sendMessage(wire, Target, peers[id].username,
                           [type |-> "candidate", candidate |-> "s1"])
    /\ op' = [name |-> "onicecandidate", side |-> Target]
    /\ UNCHANGED <<clientVars, transportVars, worldVars, channelVars, ticks>>

\* The relay delivers the server's next message to the client.
RelayToClient ==
    /\ wire.toClient # <<>>
    /\ ChannelBecomes(channelOnMessage(ChannelState, Target, Target, Head(wire.toClient)))
    /\ wire' = [wire EXCEPT !.toClient = Tail(@)]
    /\ op' = [name |-> "relay", from |-> Target, message |-> Head(wire.toClient)]
    /\ UNCHANGED <<clientVars, transportVars, worldVars, ticks>>

\* The answers a run of the promise chain of connection g sends.
AnswersOf(g) == answerChain(ChannelState, g).webChannel.answers - webChannel.answers

\* The promise chain of connection g runs; its last step sends the answer.
AnswerSent(g) ==
    /\ AnswerCreated(g)
    /\ wire' = IF AnswersOf(g) = 0 THEN wire
               ELSE IF AnswersOf(g) = 1
               THEN sendMessage(wire, ClientName, Target, [type |-> "answer"])
               ELSE sendMessage(sendMessage(wire, ClientName, Target, [type |-> "answer"]),
                                ClientName, Target, [type |-> "answer"])
    /\ UNCHANGED <<clientVars, transportVars, worldVars, ticks>>

\* remoteConnection.onicecandidate of connection g, gathering having started
\* with setLocalDescription: the candidate is sent to the target.
ClientCandidate(g) ==
    /\ rtc[g].localDescription
    /\ Cardinality(SentBy(ClientName, "candidate")) < MaxCandidates
    /\ wire' = sendMessage(wire, ClientName, Target,
                           [type |-> "candidate", candidate |-> "a1"])
    /\ op' = [name |-> "onicecandidate", side |-> ClientName]
    /\ UNCHANGED <<clientVars, transportVars, worldVars, channelVars, ticks>>

\* Both connection objects hold both descriptions: the connection between the
\* server's peer id and the client's connection g can be established.
BothNegotiated(id, g) ==
    /\ peers[id].offerSent /\ peers[id].remoteDescription
    /\ rtc[g].remoteDescription /\ rtc[g].localDescription

\* The server's ordered channel of a negotiated connection opens.
ServerOrderedOpens ==
    \E id \in DOMAIN peers, g \in DOMAIN rtc, spawn \in Spawns :
        /\ BothNegotiated(id, g)
        /\ OrderedOpen(id, spawn)
        /\ UNCHANGED <<clientVars, channelVars, wire, ticks>>

\* The server's unordered channel of a negotiated connection opens.
ServerUnorderedOpens ==
    \E id \in DOMAIN peers, g \in DOMAIN rtc, spawn \in Spawns :
        /\ BothNegotiated(id, g)
        /\ UnorderedOpen(id, spawn)
        /\ UNCHANGED <<clientVars, channelVars, wire, ticks>>

\* The ordered channel arrives on the client's side of a negotiated connection.
ClientOrderedArrives ==
    \E id \in DOMAIN peers, g \in DOMAIN rtc :
        /\ BothNegotiated(id, g)
        /\ OrderedArrives(g)
        /\ UNCHANGED <<clientVars, transportVars, worldVars, wire, ticks>>

\* The unordered channel arrives on the client's side of a negotiated connection.
ClientUnorderedArrives ==
    \E id \in DOMAIN peers, g \in DOMAIN rtc :
        /\ BothNegotiated(id, g)
        /\ UnorderedArrives(g)
        /\ UNCHANGED <<clientVars, transportVars, worldVars, wire, ticks>>

\* The ordered channel opens on the client's side of a negotiated connection.
ClientOrderedOpens ==
    \E id \in DOMAIN peers, g \in DOMAIN rtc :
        /\ BothNegotiated(id, g)
        /\ OrderedOpens(g)
        /\ UNCHANGED <<clientVars, transportVars, worldVars, wire, ticks>>

\* The unordered channel opens on the client's side of a negotiated connection.
ClientUnorderedOpens ==
    \E id \in DOMAIN peers, g \in DOMAIN rtc :
        /\ BothNegotiated(id, g)
        /\ UnorderedOpens(g)
        /\ UNCHANGED <<clientVars, transportVars, worldVars, wire, ticks>>

HandshakeNext ==
    \/ ClientStarts
    \/ RelayToServer
    \/ \E id \in DOMAIN peers : OfferSent(id)
    \/ \E id \in DOMAIN peers : ServerCandidate(id)
    \/ RelayToClient
    \/ \E g \in DOMAIN rtc : AnswerSent(g)
    \/ \E g \in DOMAIN rtc : ClientCandidate(g)
    \/ ServerOrderedOpens
    \/ ServerUnorderedOpens
    \/ ClientOrderedArrives
    \/ ClientUnorderedArrives
    \/ ClientOrderedOpens
    \/ ClientUnorderedOpens

HandshakeSpec == HandshakeInit /\ [][HandshakeNext]_vars

\* The handshake when the relay delivers every message, createOffer and the
\* answer's promise chain resolve, and the channels of a negotiated connection
\* arrive and open.
HandshakeLive ==
    /\ HandshakeSpec
    /\ WF_vars(RelayToServer)
    /\ WF_vars(RelayToClient)
    /\ WF_vars(\E id \in DOMAIN peers : OfferSent(id))
    /\ WF_vars(\E g \in DOMAIN rtc : AnswerSent(g))
    /\ WF_vars(ServerOrderedOpens)
    /\ WF_vars(ServerUnorderedOpens)
    /\ WF_vars(ClientOrderedArrives)
    /\ WF_vars(ClientUnorderedArrives)
    /\ WF_vars(ClientOrderedOpens)
    /\ WF_vars(ClientUnorderedOpens)

\* ---- claims about the handshake

\* The offers sent to a username and the peers created for it.
OffersTo(name) ==
    { i \in SentBy(Target, "offer") : wire.log[i].to = name }

\* C32: the server sends an offer to a username only after a connect from it was
\* delivered, and one offer per peer it created whose offer is made; the client
\* sends an answer only after an offer from its target was delivered, and one
\* answer per offer whose promise chain has run; nothing but connect, offer,
\* answer and candidate is ever sent on the relay.
C32_HandshakeOrder ==
    /\ \A i \in DOMAIN wire.log :
          wire.log[i].message.type \in {"connect", "offer", "answer", "candidate"}
    /\ \A i \in SentBy(Target, "offer") :
          \E j \in 1..(i - 1) :
             /\ wire.log[j].message.type = "connect"
             /\ wire.log[j].from = wire.log[i].to
             /\ Cardinality({ k \in j..Len(wire.log) : wire.log[k].to = Target })
                   > Len(wire.toServer)
    /\ \A name \in {ClientName} :
          Cardinality(OffersTo(name)) =
             Cardinality({ id \in DOMAIN peers :
                             peers[id].username = name /\ peers[id].offerSent })
    /\ \A i \in SentBy(ClientName, "answer") :
          \E j \in 1..(i - 1) :
             /\ wire.log[j].message.type = "offer"
             /\ wire.log[j].from = Target
    /\ Cardinality(SentBy(ClientName, "answer")) =
          Cardinality({ g \in DOMAIN rtc : rtc[g].chain = "done" })
    /\ Cardinality(SentBy(ClientName, "answer")) <= Len(rtc)

\* C36: once the client has sent connect, the handshake goes on to the open
\* state on both sides: the server's onConnect is called for the client's peer
\* and the client's onConnect is called.
C36_HandshakeCompletes ==
    (SentBy(ClientName, "connect") # {})
        ~> (/\ webChannel.onConnectCalls >= 1
            /\ \E id \in DOMAIN peers :
                   peers[id].username = ClientName /\ peers[id].onConnectCalls >= 1)

\* Both sides have reported the connection.
C36_Witness ==
    /\ webChannel.onConnectCalls >= 1
    /\ \E id \in DOMAIN peers :
           peers[id].username = ClientName /\ peers[id].onConnectCalls >= 1

\* The server has sent its offer and the client its answer.
C32_Witness ==
    /\ SentBy(Target, "offer") # {}
    /\ SentBy(ClientName, "answer") # {}

\* ------------------------------------------------------------ OutOfOrderSpec
\* The client transport of ChannelSpec, with ticks counting the candidates from
\* the target that reached it before any offer.

\* Candidates counted as arriving before the first offer.
MaxEarly == 1

\* The relay delivers a candidate from the target to a client that has had no offer.
EarlyCandidate ==
    /\ Len(rtc) = 0
    /\ ticks < MaxEarly
    /\ ChannelRelayMessage(Target, [type |-> "candidate", candidate |-> "c1"])
    /\ ticks' = ticks + 1
    /\ UNCHANGED <<clientVars, transportVars, worldVars, wire>>

OutOfOrderNext == EarlyCandidate \/ ChannelNext

OutOfOrderSpec == ChannelInit /\ [][OutOfOrderNext]_vars

\* C34: a candidate from the target that reaches the client before any offer
\* changes nothing: no connection object, no channel, connected false. After it,
\* an offer from the target still starts a connection, and the promise chain of
\* that connection sets its descriptions and sends one answer.
C34_EarlyCandidateIgnored ==
    [][/\ (/\ op'.name = "relay" /\ op'.from = Target
           /\ op'.message = [type |-> "candidate", candidate |-> "c1"]
           /\ Len(rtc) = 0)
             => /\ rtc' = <<>>
                /\ webChannel' = webChannel
                /\ webChannel'.remoteConnection = 0
                /\ webChannel'.orderedChannel = 0 /\ webChannel'.unorderedChannel = 0
                /\ ~channelConnected(ChannelState')
       /\ (/\ ticks >= 1 /\ Len(rtc) = 0
           /\ op'.name = "relay" /\ op'.from = Target
           /\ op'.message = [type |-> "offer"])
             => /\ rtc' = <<RTCPeerConnection>>
                /\ webChannel'.remoteConnection = 1
       /\ (/\ ticks >= 1 /\ Len(rtc) = 1
           /\ op'.name = "answer")
             => /\ rtc'[1].remoteDescription /\ rtc'[1].localDescription
                /\ webChannel'.answers = webChannel.answers + 1]_vars

\* A candidate came before any offer, and the offer that followed was answered
\* and brought both channels.
C34_Witness ==
    /\ ticks >= 1
    /\ Len(rtc) = 1
    /\ webChannel.answers = 1
    /\ channelConnected(ChannelState)

\* ----------------------------------------------------------------- ArenaSpec
\* The authoritative world with everything that places an entity: a peer joins
\* and its entity is spawned, the update timer moves the entities, and peers
\* report positions on the floor's edge, in the wall and beyond the map.

\* Update timer callbacks a run may take.
MaxArenaTicks == 2

\* Reports: on the corners of the floor heading into the wall, in the wall,
\* beyond the last tile column, and in the open.
ArenaReports ==
    { <<8, 12, LEFT + UP>>, <<455, 267, RIGHT + DOWN>>, <<456, 100, LEFT>>,
      <<496, 28, RIGHT>>, <<120, 104, RIGHT + DOWN>> }

\* ann has joined on either corner of the spawn square, cat has only its
\* unordered channel open.
ArenaInit ==
    /\ \E s1 \in Spawns :
          LET S == HalfJoined(Joined(IdleServer(7), "ann", s1), "cat")
          IN  /\ clients = S.clients
              /\ peers = S.peers
              /\ nextId = S.nextId
              /\ serverEntities = S.serverEntities
              /\ nextEntityId = S.nextEntityId
              /\ clientToEntity = S.clientToEntity
              /\ sequenceNumber = S.sequenceNumber
    /\ simulateNetworkDelayAndLoss = FALSE
    /\ timeouts = {}
    /\ ClientIdle /\ ChannelIdle
    /\ wire = <<>>
    /\ op = [name |-> "init"]
    /\ ticks = 0

\* The update timer fires: the snapshot is built, then the entities move.
ArenaTick ==
    /\ ticks < MaxArenaTicks
    /\ Becomes(serverTick(ServerState))
    /\ ticks' = ticks + 1
    /\ op' = [name |-> "tick"]
    /\ UNCHANGED wire

ArenaNext ==
    /\ \/ ArenaTick
       \/ \E id \in DOMAIN peers, array \in ArenaReports : ReportReceived(id, array)
       \/ \E id \in DOMAIN peers, spawn \in Spawns :
             OrderedOpen(id, spawn) /\ UNCHANGED <<wire, ticks>>
    /\ UNCHANGED <<clientVars, channelVars>>

ArenaSpec == ArenaInit /\ [][ArenaNext]_vars

\* C38: no entity of the server world stands where blockedAt is true, however
\* spawns, update timer moves and reports interleave; and blockedAt is false on
\* the whole spawn square, 100..199 on both axes.
C38_NoEntityOnBlocked ==
    /\ \A k \in 1..Len(serverEntities) :
          ~blockedAt(serverEntities[k].x, serverEntities[k].y)
    /\ op.name = "init" =>
          \A x \in 100..199, y \in 100..199 : ~blockedAt(x, y)

\* Two entities, one spawned during the run; the timer has run, a report was
\* accepted, and an entity heading into the wall has been held on the floor's
\* corner.
C38_Witness ==
    /\ Len(serverEntities) = 2
    /\ ticks = MaxArenaTicks
    /\ \E k \in 1..Len(serverEntities) :
          /\ serverEntities[k].x = 455 /\ serverEntities[k].y = 267
          /\ serverEntities[k].right /\ serverEntities[k].down
          /\ blockedAt(serverEntities[k].x + ServerMoveStep,
                       serverEntities[k].y + ServerMoveStep)

\* ---- claims about the server-side peer

\* C8 as stated: for every server-side peer, onConnect is invoked at most once,
\* exactly once if both of its channels have opened, and never before both
\* channels have each reached the open state.
C8_ConnectOnceIfBothOpened ==
    \A id \in DOMAIN peers :
        /\ peers[id].onConnectCalls <= 1
        /\ (peers[id].orderedOpened /\ peers[id].unorderedOpened)
              => peers[id].onConnectCalls = 1
        /\ peers[id].onConnectCalls >= 1
              => (peers[id].orderedOpened /\ peers[id].unorderedOpened)

\* C8 amended: for every server-side peer, onConnect is invoked at most once,
\* exactly once if both of its channels are open at the same time, and never
\* before both channels have each reached the open state.
C8_ConnectOnceIfBothOpen ==
    \A id \in DOMAIN peers :
        /\ peers[id].onConnectCalls <= 1
        /\ (peers[id].orderedState = "open" /\ peers[id].unorderedState = "open")
              => peers[id].onConnectCalls = 1
        /\ peers[id].onConnectCalls >= 1
              => (peers[id].orderedOpened /\ peers[id].unorderedOpened)

\* The ordered channel of a peer opens after its unordered channel and onConnect
\* has been invoked, once.
C8_Witness ==
    /\ op.name = "orderedOpen"
    /\ peers[op.peer].unorderedState = "open"
    /\ peers[op.peer].orderedState = "open"
    /\ peers[op.peer].onConnectCalls = 1

\* C10: a server-side peer reports connected only while both its ordered and its
\* unordered channel are open, so it reports false once either channel has closed.
C10_ConnectedOnlyWhileBothOpen ==
    \A id \in DOMAIN peers :
        connected(peers[id])
            => (peers[id].orderedState = "open" /\ peers[id].unorderedState = "open")

\* A step in which a channel of peer id closes.
ClosesChannelOf(id) ==
    /\ op'.name \in {"orderedClose", "unorderedClose"}
    /\ op'.peer = id

\* The entities of a world without the one with this id.
WithoutEntity(ents, entityId) == SelectSeq(ents, LAMBDA e : e.id # entityId)

\* C11: once onConnect has been invoked for a peer, the first close of one of its
\* channels invokes onDisconnect, takes the peer and only that peer off the
\* roster and its entity and only that entity out of the world; onDisconnect is
\* never invoked a second time, and no other step shrinks the roster or the world.
C11_DisconnectCleanupOnce ==
    /\ [](\A id \in DOMAIN peers : peers[id].onDisconnectCalls <= 1)
    /\ [][\A id \in DOMAIN peers :
            /\ (ClosesChannelOf(id) /\ peers[id].onConnectCalls = 1
                                    /\ peers[id].onDisconnectCalls = 0)
                  => /\ peers'[id].onDisconnectCalls = 1
                     /\ InRoster(clients, id)
                     /\ clients' = Without(clients, id)
                     /\ id \in DOMAIN clientToEntity
                     /\ id \notin DOMAIN clientToEntity'
                     /\ Len(serverEntities') = Len(serverEntities) - 1
                     /\ serverEntities' = WithoutEntity(serverEntities, clientToEntity[id])
            /\ (peers'[id].onDisconnectCalls = peers[id].onDisconnectCalls)
                  => /\ InRoster(clients, id) => InRoster(clients', id)
                     /\ id \in DOMAIN clientToEntity
                           => /\ id \in DOMAIN clientToEntity'
                              /\ clientToEntity'[id] = clientToEntity[id]
                              /\ FindById(serverEntities', clientToEntity[id]) # 0
         ]_vars

\* A connected peer whose channels have both closed, the second one just now:
\* one onDisconnect, off the roster, entity gone.
C11_Witness ==
    /\ op.name \in {"orderedClose", "unorderedClose"}
    /\ peers[op.peer].onConnectCalls = 1
    /\ peers[op.peer].onDisconnectCalls = 1
    /\ peers[op.peer].orderedState = "closed"
    /\ peers[op.peer].unorderedState = "closed"
    /\ peers[op.peer].orderedOpened /\ peers[op.peer].unorderedOpened
    /\ ~InRoster(clients, op.peer)
    /\ op.peer \notin DOMAIN clientToEntity

\* A step in which the relay hands the server a typed message other than connect.
SignalingStep ==
    /\ op'.name = "relay"
    /\ "type" \in DOMAIN op'.message
    /\ op'.message.type # "connect"

\* C15: a relay message of a type other than connect from sender S is handled
\* by one roster peer with username S and leaves every other peer, the roster
\* and the world as they were; with no such roster peer nothing changes at all.
C15_RoutedToOnePeerOfSender ==
    [][SignalingStep =>
          /\ clients' = clients
          /\ UNCHANGED <<nextId, worldVars>>
          /\ IF RosterPeersOf(op'.from) = {}
             THEN peers' = peers
             ELSE \E t \in RosterPeersOf(op'.from) :
                     /\ peers' = onRelayMessage(ServerState, t, op'.message).peers
                     /\ \A id \in DOMAIN peers \ {t} : peers'[id] = peers[id]
      ]_vars

\* An answer has just reached the first of two roster peers of one sender: the
\* first has its remote description, the second is still waiting for one.
C15_Witness ==
    /\ op.name = "relay"
    /\ op.message = [type |-> "answer"]
    /\ \E t \in RosterPeersOf(op.from), u \in RosterPeersOf(op.from) :
          /\ t # u
          /\ peers[t].remoteDescription
          /\ peers[u].offerSent /\ ~peers[u].remoteDescription

\* C16: the roster never holds two peers of the same relay sender.
C16_OnePeerPerSender ==
    \A i \in 1..Len(clients), j \in 1..Len(clients) :
        i # j => peers[clients[i]].username # peers[clients[j]].username

\* The messages a step has sent to a peer.
NewlySent(id) == SubSeq(peers'[id].sent, Len(peers[id].sent) + 1, Len(peers'[id].sent))

\* How many times a message occurs in a sequence of messages.
Count(messages, m) == Cardinality({i \in 1..Len(messages) : messages[i] = m})

\* A step in which onConnect is invoked for peer id.
ConnectsPeer(id) == peers'[id].onConnectCalls = peers[id].onConnectCalls + 1

\* The name message for an entity of a peer.
NameMessage(entityId, id) ==
    [type |-> "name", entityId |-> entityId, name |-> peers[id].username]

\* C19: when clientConnected runs for peer P with its new entity e, P is sent one
\* identify(e.id) and one time(sequence number), every connected roster peer, P
\* included, is sent one name message for e, P is sent one name message for
\* every other roster peer with a bound entity, and so P has been sent a name
\* for every entity of the server world.
C19_NewPeerIsToldEverything ==
    [][\A P \in DOMAIN peers :
          ConnectsPeer(P) =>
             LET e == nextEntityId
             IN  /\ Count(NewlySent(P), [type |-> "identify", entityId |-> e]) = 1
                 /\ Count(NewlySent(P), [type |-> "time", seq |-> sequenceNumber]) = 1
                 /\ \A i \in 1..Len(clients') :
                       connected(peers'[clients'[i]])
                          => Count(NewlySent(clients'[i]), NameMessage(e, P)) = 1
                 /\ \A i \in 1..Len(clients) :
                       (clients[i] # P /\ clients[i] \in DOMAIN clientToEntity)
                          => Count(NewlySent(P),
                                   NameMessage(clientToEntity[clients[i]], clients[i])) = 1
                 /\ \A k \in 1..Len(serverEntities') :
                       \E i \in 1..Len(peers'[P].sent) :
                           /\ peers'[P].sent[i].type = "name"
                           /\ peers'[P].sent[i].entityId = serverEntities'[k].id
      ]_vars

\* C22: a new entity gets the id nextEntityId, greater than every id assigned
\* before, and nextEntityId moves on by one and never back; so the entities of
\* the server world have pairwise distinct ids and the id of a removed entity
\* is never used again.
C22_EntityIdsIncrease ==
    /\ [](/\ \A i \in 1..Len(serverEntities) : serverEntities[i].id < nextEntityId
          /\ \A i, j \in 1..Len(serverEntities) :
                i # j => serverEntities[i].id # serverEntities[j].id
          /\ \A k \in DOMAIN clientToEntity : clientToEntity[k] < nextEntityId)
    /\ [][/\ nextEntityId' >= nextEntityId
          /\ \A i \in 1..Len(serverEntities') :
                serverEntities'[i].id \notin IdSet(serverEntities) =>
                   /\ serverEntities'[i].id = nextEntityId
                   /\ nextEntityId' = nextEntityId + 1
          /\ Len(serverEntities') > Len(serverEntities) => nextEntityId' = nextEntityId + 1
        ]_vars

\* The first peer's entity has been removed and the second peer has just been
\* given the next id, not the one that became free.
C22_Witness ==
    /\ op.name \in {"orderedOpen", "unorderedOpen"}
    /\ op.peer = 2
    /\ peers[1].onDisconnectCalls = 1
    /\ IdSeq(serverEntities) = <<2>>
    /\ nextEntityId = 3

\* C33: a candidate that the relay delivers from the username of a roster peer
\* is applied to that peer's connection, whether it arrives before or after the
\* peer's answer and before or after the channels have opened.
C33_CandidateApplied ==
    [][(/\ op'.name = "relay"
        /\ "type" \in DOMAIN op'.message
        /\ op'.message.type = "candidate"
        /\ FindClient(ServerState, op'.from) # 0)
          => op'.message.candidate
                \in peers'[FindClient(ServerState, op'.from)].candidates]_vars

\* The roster peers bound to the entity with this id.
BoundPeers(entityId) ==
    { id \in DOMAIN clientToEntity :
        InRoster(clients, id) /\ clientToEntity[id] = entityId }

\* C37: every entity of the server world is bound to exactly one roster peer,
\* and that peer reports connected; every roster peer that reports connected is
\* bound to an entity that is in the world once; and clientToEntity has no entry
\* for a peer that has disconnected, one of its channels having closed.
C37_BindingOneToOne ==
    /\ \A k \in 1..Len(serverEntities) :
          /\ Cardinality(BoundPeers(serverEntities[k].id)) = 1
          /\ \A id \in BoundPeers(serverEntities[k].id) : connected(peers[id])
    /\ \A i \in 1..Len(clients) :
          connected(peers[clients[i]])
             => /\ clients[i] \in DOMAIN clientToEntity
                /\ Cardinality({ k \in 1..Len(serverEntities) :
                       serverEntities[k].id = clientToEntity[clients[i]] }) = 1
    /\ \A id \in DOMAIN clientToEntity :
          /\ peers[id].orderedState # "closed"
          /\ peers[id].unorderedState # "closed"

\* The server when every relay delivery and channel event that can happen does.
ServerLive == ServerSpec /\ WF_vars(ServerNext)

\* Both channels of peer id have closed.
ChannelsClosed(id) ==
    /\ id \in DOMAIN peers
    /\ peers[id].orderedState = "closed"
    /\ peers[id].unorderedState = "closed"

\* C39: a peer whose two channels have closed is in the end off the roster,
\* whether or not it was ever reported connected.
C39_ClosedPeerLeavesRoster ==
    \A id \in 1..MaxPeers :
        ChannelsClosed(id) ~> ~InRoster(clients, id)

====
